---- MODULE Spec2Model ----
(***************************************************************************)
(* State-machine model of truth_has_a_half_life.py (VanishingMemoriesGame). *)
(* Times are integer milliseconds (dt = clock.tick(FPS) / 1000.0 is a whole *)
(* number of milliseconds); the typing accumulators are in thousandths of a *)
(* character; a scene's fade progress is the milliseconds of exposure, full *)
(* at SCENE_FADE_DURATION.                                                  *)
(***************************************************************************)
EXTENDS Integers, Sequences, FiniteSets, TLC

VARIABLES
    state, running, exited, culprit, scenes, sounds,
    global_time, current_scene_index, snapshots,
    ominous_playing, snapshot_effect_time, scene_fade_progress,
    popup_artifact_filename, popup_scene_index,
    opening_slide_index, opening_timer, opening_phase,
    opening_text_index, opening_char_index, opening_typing_accumulator,
    ending_slides, ending_index, ending_phase, ending_timer,
    ending_player_choice, ending_memory_popup_index,
    ending_text_index, ending_char_index, ending_typing_accumulator,
    ending_builds, ominous_channels

\* ending_builds counts the calls of _start_ending and ominous_channels the
\* channels of the mixer that play sounds["ominous"]
vars == << state, running, exited, culprit, scenes, sounds,
    global_time, current_scene_index, snapshots,
    ominous_playing, snapshot_effect_time, scene_fade_progress,
    popup_artifact_filename, popup_scene_index,
    opening_slide_index, opening_timer, opening_phase,
    opening_text_index, opening_char_index, opening_typing_accumulator,
    ending_slides, ending_index, ending_phase, ending_timer,
    ending_player_choice, ending_memory_popup_index,
    ending_text_index, ending_char_index, ending_typing_accumulator,
    ending_builds, ominous_channels >>

\* ------------------------------------------------------------------------
\* Program constants
\* ------------------------------------------------------------------------
GLOBAL_TIME_LIMIT == 120000

MAX_SNAPSHOTS == 3

EVIDENCE_POINTS_REQUIRED == 12

OPENING_FADE_IN_DURATION == 1200

OPENING_FADE_OUT_DURATION == 900

OPENING_TYPING_CPS == 38

ENDING_FADE_IN == 1200

ENDING_FADE_OUT == 900

ENDING_TYPING_CPS == 38

SCENE_FADE_DURATION == 14000

SNAPSHOT_EFFECT_DURATION == 400

OMINOUS_BELOW == 25000

NUM_OPENING_IMAGES == 7

\* trigger_artifact_filename = None (a whole-scene capture made with S)
None == "None"

SuspectIds == {"queen", "chef", "goblin"}

\* ------------------------------------------------------------------------
\* Bounds of the model
\* ------------------------------------------------------------------------
\* a stalled frame: the countdown runs 120 -> 70 -> 20 -> 0 seconds
DtStall == 50000

\* the player clicks the first NumClocks clocks of ClockOrder
NumClocks == 1

\* ticks spent in one holding phase of the opening or the ending
MaxHoldTicks == 1

Min(a, b) == IF a < b THEN a ELSE b

Max(a, b) == IF a > b THEN a ELSE b

\* ------------------------------------------------------------------------
\* Scene & evidence model
\* ------------------------------------------------------------------------
labels == <<"09:12", "11:17", "12:03", "14:40", "18:22", "21:10">>

\* artifact_specs[i]: the three file names of scene i (0-based scene index)
artifact_specs ==
    [i \in 0..5 |->
        CASE i = 0 -> <<"q1-1.png", "c1-1.png", "g1-1.png">>
          [] i = 1 -> <<"q5-2.png", "c10-1.png", "g1-2.png">>
          [] i = 2 -> <<"q5-1.png", "c1-2.png", "g5-1.png">>
          [] i = 3 -> <<"q10-2.png", "c5-1.png", "g5-2.png">>
          [] i = 4 -> <<"q10-1.png", "c5-2.png", "g10-1.png">>
          [] i = 5 -> <<"q1-2.png", "c10-2.png", "g10-2.png">>]

\* REPLACEMENT_MAP without its entry for c10-1.png of scene 1
REPLACEMENT_MAP_Missing ==
    (<<1, "q5-2.png">> :> "r1.png") @@
    (<<2, "g5-1.png">> :> "r6.png") @@ (<<2, "q5-1.png">> :> "r2.png") @@
    (<<3, "c5-1.png">> :> "r4.png") @@ (<<3, "g5-2.png">> :> "r5.png") @@
    (<<3, "q10-2.png">> :> "r7.png") @@ (<<4, "g10-1.png">> :> "r8.png") @@
    (<<4, "c5-2.png">> :> "r9.png") @@ (<<4, "q10-1.png">> :> "r10.png") @@
    (<<5, "c10-2.png">> :> "r11.png") @@ (<<5, "g10-2.png">> :> "r12.png")

\* REPLACEMENT_MAP: (scene index, original file name) -> replacement file name
REPLACEMENT_MAP ==
    (<<1, "c10-1.png">> :> "r3.png") @@ (<<1, "q5-2.png">> :> "r1.png") @@
    (<<2, "g5-1.png">> :> "r6.png") @@ (<<2, "q5-1.png">> :> "r2.png") @@
    (<<3, "c5-1.png">> :> "r4.png") @@ (<<3, "g5-2.png">> :> "r5.png") @@
    (<<3, "q10-2.png">> :> "r7.png") @@ (<<4, "g10-1.png">> :> "r8.png") @@
    (<<4, "c5-2.png">> :> "r9.png") @@ (<<4, "q10-1.png">> :> "r10.png") @@
    (<<5, "c10-2.png">> :> "r11.png") @@ (<<5, "g10-2.png">> :> "r12.png")

\* the keys of ARTIFACT_INFO
ARTIFACT_INFO ==
    {"q10-1.png", "q10-2.png", "q5-1.png", "q5-2.png", "q1-1.png", "q1-2.png",
     "c10-1.png", "c10-2.png", "c5-1.png", "c5-2.png", "c1-1.png", "c1-2.png",
     "g10-1.png", "g10-2.png", "g5-1.png", "g5-2.png", "g1-1.png", "g1-2.png",
     "r1.png", "r2.png", "r3.png", "r4.png", "r5.png", "r6.png",
     "r7.png", "r8.png", "r9.png", "r10.png", "r11.png", "r12.png"}

\* base = filename.lower().replace(".png", ""), as its sequence of characters
BaseChars(filename) ==
    CASE filename = "q1-1.png" -> <<"q", "1", "-", "1">>
      [] filename = "q1-2.png" -> <<"q", "1", "-", "2">>
      [] filename = "q5-1.png" -> <<"q", "5", "-", "1">>
      [] filename = "q5-2.png" -> <<"q", "5", "-", "2">>
      [] filename = "q10-1.png" -> <<"q", "1", "0", "-", "1">>
      [] filename = "q10-2.png" -> <<"q", "1", "0", "-", "2">>
      [] filename = "c1-1.png" -> <<"c", "1", "-", "1">>
      [] filename = "c1-2.png" -> <<"c", "1", "-", "2">>
      [] filename = "c5-1.png" -> <<"c", "5", "-", "1">>
      [] filename = "c5-2.png" -> <<"c", "5", "-", "2">>
      [] filename = "c10-1.png" -> <<"c", "1", "0", "-", "1">>
      [] filename = "c10-2.png" -> <<"c", "1", "0", "-", "2">>
      [] filename = "g1-1.png" -> <<"g", "1", "-", "1">>
      [] filename = "g1-2.png" -> <<"g", "1", "-", "2">>
      [] filename = "g5-1.png" -> <<"g", "5", "-", "1">>
      [] filename = "g5-2.png" -> <<"g", "5", "-", "2">>
      [] filename = "g10-1.png" -> <<"g", "1", "0", "-", "1">>
      [] filename = "g10-2.png" -> <<"g", "1", "0", "-", "2">>
      [] filename = "r1.png" -> <<"r", "1">>
      [] filename = "r2.png" -> <<"r", "2">>
      [] filename = "r3.png" -> <<"r", "3">>
      [] filename = "r4.png" -> <<"r", "4">>
      [] filename = "r5.png" -> <<"r", "5">>
      [] filename = "r6.png" -> <<"r", "6">>
      [] filename = "r7.png" -> <<"r", "7">>
      [] filename = "r8.png" -> <<"r", "8">>
      [] filename = "r9.png" -> <<"r", "9">>
      [] filename = "r10.png" -> <<"r", "1", "0">>
      [] filename = "r11.png" -> <<"r", "1", "1">>
      [] filename = "r12.png" -> <<"r", "1", "2">>
      [] OTHER -> << >>

DigitValue(c) ==
    CASE c = "0" -> 0 [] c = "1" -> 1 [] c = "2" -> 2 [] c = "3" -> 3
      [] c = "4" -> 4 [] c = "5" -> 5 [] c = "6" -> 6 [] c = "7" -> 7
      [] c = "8" -> 8 [] c = "9" -> 9 [] OTHER -> -1

IsDigit(c) == DigitValue(c) >= 0

\* the loop "for c in base[1:]: if c.isdigit(): num_str += c else: break",
\* returning int(num_str), or 0 when num_str is empty
RECURSIVE LeadingNumber(_, _)
LeadingNumber(chars, acc) ==
    IF chars = << >> \/ ~IsDigit(Head(chars))
    THEN acc
    ELSE LeadingNumber(Tail(chars), 10 * acc + DigitValue(Head(chars)))

\* the parse reading one digit of the points only (c10-1.png -> 1)
ParseArtifactSuspectAndPoints_FirstDigit(filename) ==
    LET base == BaseChars(filename)
        rest == IF base = << >> THEN << >> ELSE Tail(base)
    IN  IF base = << >> \/ Head(base) \notin {"q", "c", "g"}
        THEN <<"", 0>>
        ELSE << CASE Head(base) = "q" -> "queen"
                  [] Head(base) = "c" -> "chef"
                  [] Head(base) = "g" -> "goblin",
                IF rest # << >> /\ IsDigit(Head(rest))
                THEN DigitValue(Head(rest)) ELSE 0 >>

\* _parse_artifact_suspect_and_points(filename) -> (suspect_id, points)
ParseArtifactSuspectAndPoints(filename) ==
    LET base == BaseChars(filename)
        rest == IF base = << >> THEN << >> ELSE Tail(base)
    IN  IF base # << >> /\ Head(base) = "r" /\ rest # << >>
           /\ \A k \in 1..Len(rest) : IsDigit(rest[k])
        THEN <<"", 0>>
        ELSE IF base = << >> \/ Head(base) \notin {"q", "c", "g"}
        THEN <<"", 0>>
        ELSE << CASE Head(base) = "q" -> "queen"
                  [] Head(base) = "c" -> "chef"
                  [] Head(base) = "g" -> "goblin",
                LeadingNumber(rest, 0) >>

\* _build_scenes replacing every 5- or 10-point artifact, the killer's too
BuildArtifact_ReplaceAll(killer_id, i, orig_filename) ==
    LET parsed == ParseArtifactSuspectAndPoints(orig_filename)
        suspect_id == parsed[1]
        points == parsed[2]
        use_replacement ==
            /\ points \in {5, 10}
            /\ <<i, orig_filename>> \in DOMAIN REPLACEMENT_MAP
    IN  IF use_replacement
        THEN [spec_filename |-> REPLACEMENT_MAP[<<i, orig_filename>>],
              suspect_id |-> "", points |-> 0]
        ELSE [spec_filename |-> orig_filename,
              suspect_id |-> suspect_id, points |-> points]

\* _build_scenes loading the decoy image but keeping the points and the
\* suspect of the artifact it replaces
BuildArtifact_KeepPoints(killer_id, i, orig_filename) ==
    LET parsed == ParseArtifactSuspectAndPoints(orig_filename)
        suspect_id == parsed[1]
        points == parsed[2]
        use_replacement ==
            /\ killer_id # suspect_id
            /\ points \in {5, 10}
            /\ <<i, orig_filename>> \in DOMAIN REPLACEMENT_MAP
    IN  [spec_filename |-> IF use_replacement
                           THEN REPLACEMENT_MAP[<<i, orig_filename>>]
                           ELSE orig_filename,
         suspect_id |-> suspect_id, points |-> points]

\* the artifact _build_scenes makes of one spec of scene i
BuildArtifact(killer_id, i, orig_filename) ==
    LET parsed == ParseArtifactSuspectAndPoints(orig_filename)
        suspect_id == parsed[1]
        points == parsed[2]
        use_replacement ==
            /\ killer_id # suspect_id
            /\ points \in {5, 10}
            /\ <<i, orig_filename>> \in DOMAIN REPLACEMENT_MAP
    IN  IF use_replacement
        THEN [spec_filename |-> REPLACEMENT_MAP[<<i, orig_filename>>],
              suspect_id |-> "", points |-> 0]
        ELSE [spec_filename |-> orig_filename,
              suspect_id |-> suspect_id, points |-> points]

\* the artifacts list of scene i: an artifact whose image (named by its
\* displayed file) fails to load is not appended
RECURSIVE BuildArtifacts(_, _, _, _)
BuildArtifacts(killer_id, i, specs, missing) ==
    IF specs = << >> THEN << >>
    ELSE LET art == BuildArtifact(killer_id, i, Head(specs))
             rest == BuildArtifacts(killer_id, i, Tail(specs), missing)
         IN  IF art.spec_filename \in missing THEN rest ELSE <<art>> \o rest

\* _build_scenes(killer_id): scene index -> [label, artifacts]
BuildScenes(killer_id, missing) ==
    [i \in 0..5 |->
        [label |-> labels[i + 1],
         artifacts |-> BuildArtifacts(killer_id, i, artifact_specs[i], missing)]]

\* ------------------------------------------------------------------------
\* Scripts: every text box is represented by len(full_text)
\* ------------------------------------------------------------------------
OPENING_SCRIPT ==
    << <<78, 57, 102, 40>>, <<41, 23, 39, 36, 59>>, <<48, 66, 93, 39>>,
       <<71, 79, 48, 44, 85>>, <<32, 34, 73, 24>>, <<51, 38, 41, 40>>,
       <<39, 52, 36, 35>> >>

\* the ending scripts, by the name of the list a slide refers to
ScriptOf(name) ==
    CASE name = "BAD_ENDING_RED_CRYSTAL" -> <<28, 53, 79, 56, 30, 32>>
      [] name = "BAD_ENDING_DEAD_KING" -> <<59, 17, 16, 41, 39, 40>>
      [] name = "BAD_ENDING_QUEEN_FREE" -> <<64, 60, 35, 56, 71, 110, 40>>
      [] name = "BAD_ENDING_GOBLIN_FREE" -> <<70, 74, 59, 38, 80, 118, 40>>
      [] name = "BAD_ENDING_CHEF_FREE" -> <<65, 58, 64, 28, 57, 112, 40>>
      [] name = "BAD_ENDING_II_RED_CRYSTAL" -> <<34, 39, 35, 10, 32>>
      [] name = "BAD_ENDING_II_DEAD_KING" -> <<28, 24, 27, 37, 40>>
      [] name = "BAD_ENDING_II_QUEEN_FREE" -> <<37, 39, 37, 77, 44, 45>>
      [] name = "BAD_ENDING_II_CHEF_FREE" -> <<35, 37, 62, 25, 51, 45>>
      [] name = "BAD_ENDING_II_GOBLIN_FREE" -> <<41, 29, 76, 50, 47, 45>>
      [] name = "WIN_PATH_G1_GREEN_CRYSTAL" -> <<85>>
      [] name = "WIN_PATH_G2_OPTIONS" -> <<52, 31, 61>>
      [] name = "WIN_PATH_G3_ESCORT" -> <<26, 67>>
      [] name = "WIN_PATH_G4_CULPRITS" -> <<32>>
      [] name = "WIN_PATH_G5_QUEEN_PLEADS" -> <<54, 53>>
      [] name = "WIN_PATH_G5_CHEF_PLEADS" -> <<34, 65>>
      [] name = "WIN_PATH_G5_GOBLIN_PLEADS" -> <<36, 66>>
      [] name = "WIN_PATH_G6_BLOOD_TAKEN" -> <<54>>
      [] name = "WIN_PATH_G7_HANDS_TO_MAGE" -> <<30, 19>>
      [] name = "GOOD_ENDING_GREEN_CRYSTAL" -> <<85, 74>>
      [] name = "GOOD_ENDING_DEAD_KING" -> <<98, 41, 30, 148>>
      [] name = "GOOD_ENDING_GE1_REJOICING" -> <<24, 13, 68, 45>>
      [] name = "GOOD_ENDING_GE2_CORONATION" -> <<88, 50, 26, 130, 53, 122>>
      [] OTHER -> << >>

\* one entry of ending_slides; a key the dict lacks reads as FALSE
Slide(image, script, show_memories, accept_123, exit_prompt) ==
    [image |-> image, script |-> script, show_memories |-> show_memories,
     accept_123 |-> accept_123, exit_prompt |-> exit_prompt]

KillerBe(killer_id) ==
    CASE killer_id = "goblin" -> "gob_be.png"
      [] killer_id = "chef" -> "chef_be.png"
      [] killer_id = "queen" -> "queen_be.png"

\* ------------------------------------------------------------------------
\* The game object: the fields of self as one record
\* ------------------------------------------------------------------------
Self ==
    [state |-> state, running |-> running, exited |-> exited,
     culprit |-> culprit, scenes |-> scenes, sounds |-> sounds,
     global_time |-> global_time,
     current_scene_index |-> current_scene_index,
     snapshots |-> snapshots,
     ominous_playing |-> ominous_playing,
     snapshot_effect_time |-> snapshot_effect_time,
     scene_fade_progress |-> scene_fade_progress,
     popup_artifact_filename |-> popup_artifact_filename,
     popup_scene_index |-> popup_scene_index,
     opening_slide_index |-> opening_slide_index,
     opening_timer |-> opening_timer,
     opening_phase |-> opening_phase,
     opening_text_index |-> opening_text_index,
     opening_char_index |-> opening_char_index,
     opening_typing_accumulator |-> opening_typing_accumulator,
     ending_slides |-> ending_slides,
     ending_index |-> ending_index,
     ending_phase |-> ending_phase,
     ending_timer |-> ending_timer,
     ending_player_choice |-> ending_player_choice,
     ending_memory_popup_index |-> ending_memory_popup_index,
     ending_text_index |-> ending_text_index,
     ending_char_index |-> ending_char_index,
     ending_typing_accumulator |-> ending_typing_accumulator,
     ending_builds |-> ending_builds,
     ominous_channels |-> ominous_channels]

\* the next state is the game object g
Becomes(g) ==
    /\ state' = g.state
    /\ running' = g.running
    /\ exited' = g.exited
    /\ culprit' = g.culprit
    /\ scenes' = g.scenes
    /\ sounds' = g.sounds
    /\ global_time' = g.global_time
    /\ current_scene_index' = g.current_scene_index
    /\ snapshots' = g.snapshots
    /\ ominous_playing' = g.ominous_playing
    /\ snapshot_effect_time' = g.snapshot_effect_time
    /\ scene_fade_progress' = g.scene_fade_progress
    /\ popup_artifact_filename' = g.popup_artifact_filename
    /\ popup_scene_index' = g.popup_scene_index
    /\ opening_slide_index' = g.opening_slide_index
    /\ opening_timer' = g.opening_timer
    /\ opening_phase' = g.opening_phase
    /\ opening_text_index' = g.opening_text_index
    /\ opening_char_index' = g.opening_char_index
    /\ opening_typing_accumulator' = g.opening_typing_accumulator
    /\ ending_slides' = g.ending_slides
    /\ ending_index' = g.ending_index
    /\ ending_phase' = g.ending_phase
    /\ ending_timer' = g.ending_timer
    /\ ending_player_choice' = g.ending_player_choice
    /\ ending_memory_popup_index' = g.ending_memory_popup_index
    /\ ending_text_index' = g.ending_text_index
    /\ ending_char_index' = g.ending_char_index
    /\ ending_typing_accumulator' = g.ending_typing_accumulator
    /\ ending_builds' = g.ending_builds
    /\ ominous_channels' = g.ominous_channels

\* ------------------------------------------------------------------------
\* Evidence totals
\* ------------------------------------------------------------------------
PointsOf(snap, suspect_id) ==
    CASE suspect_id = "queen" -> snap.points_queen
      [] suspect_id = "chef" -> snap.points_chef
      [] suspect_id = "goblin" -> snap.points_goblin

\* sum(s.points_<suspect> for s in snaps)
RECURSIVE Total(_, _)
Total(snaps, suspect_id) ==
    IF snaps = << >> THEN 0
    ELSE PointsOf(Head(snaps), suspect_id) + Total(Tail(snaps), suspect_id)

\* ------------------------------------------------------------------------
\* Ending selector / builder
\* ------------------------------------------------------------------------
\* the win/loss gate testing the queen's total only
Win_QueenOnly(snaps) == Total(snaps, "queen") >= EVIDENCE_POINTS_REQUIRED

\* the win/loss gate of _start_ending
Win(snaps) ==
    \/ Total(snaps, "queen") >= EVIDENCE_POINTS_REQUIRED
    \/ Total(snaps, "chef") >= EVIDENCE_POINTS_REQUIRED
    \/ Total(snaps, "goblin") >= EVIDENCE_POINTS_REQUIRED

\* the failure slides ending on the queen's escape whoever the killer is
LossSlides_QueenFree(killer_id) ==
    << Slide("red_cryst.png", "BAD_ENDING_RED_CRYSTAL", FALSE, FALSE, FALSE),
       Slide("dead_king.png", "BAD_ENDING_DEAD_KING", FALSE, FALSE, FALSE),
       Slide("queen_be.png", "BAD_ENDING_QUEEN_FREE", FALSE, FALSE, TRUE) >>

\* the failure slides of _start_ending
LossSlides(killer_id) ==
    << Slide("red_cryst.png", "BAD_ENDING_RED_CRYSTAL", FALSE, FALSE, FALSE),
       Slide("dead_king.png", "BAD_ENDING_DEAD_KING", FALSE, FALSE, FALSE),
       Slide(KillerBe(killer_id),
             CASE killer_id = "queen" -> "BAD_ENDING_QUEEN_FREE"
               [] killer_id = "goblin" -> "BAD_ENDING_GOBLIN_FREE"
               [] killer_id = "chef" -> "BAD_ENDING_CHEF_FREE",
             FALSE, FALSE, TRUE) >>

WinSlides ==
    << Slide("green_cryst.png", "WIN_PATH_G1_GREEN_CRYSTAL", FALSE, FALSE, FALSE),
       Slide("the_options.png", "WIN_PATH_G2_OPTIONS", TRUE, FALSE, FALSE),
       Slide("escort_in.png", "WIN_PATH_G3_ESCORT", TRUE, FALSE, FALSE),
       Slide("the_culprits.png", "WIN_PATH_G4_CULPRITS", TRUE, TRUE, FALSE) >>

\* _start_ending
StartEnding(g) ==
    [g EXCEPT
        !.ending_player_choice = 0,
        !.ending_memory_popup_index = -1,
        !.ending_slides = IF ~Win(g.snapshots) THEN LossSlides(g.culprit)
                          ELSE WinSlides,
        !.ending_index = 0,
        !.ending_phase = "fade_in",
        !.ending_timer = 0,
        !.ending_text_index = 0,
        !.ending_char_index = 0,
        !.ending_typing_accumulator = 0,
        !.state = "ending",
        !.ending_builds = g.ending_builds + 1]

\* _ending_append_blood_and_continuation
EndingAppendBloodAndContinuation(g) ==
    LET choice == g.ending_player_choice
        blood_img == CASE choice = 1 -> "goblin_blood.png"
                       [] choice = 2 -> "chef_blood.png"
                       [] choice = 3 -> "queen_blood.png"
        g5_script == CASE choice = 1 -> "WIN_PATH_G5_GOBLIN_PLEADS"
                       [] choice = 2 -> "WIN_PATH_G5_CHEF_PLEADS"
                       [] choice = 3 -> "WIN_PATH_G5_QUEEN_PLEADS"
    IN  [g EXCEPT !.ending_slides = g.ending_slides \o
            << Slide(blood_img, g5_script, FALSE, FALSE, FALSE),
               Slide("blood_transfer.png", "WIN_PATH_G6_BLOOD_TAKEN", FALSE, FALSE, FALSE),
               Slide("mage_cooking.png", "WIN_PATH_G7_HANDS_TO_MAGE", FALSE, FALSE, FALSE) >>]

GoodSlides ==
    << Slide("green_cryst.png", "GOOD_ENDING_GREEN_CRYSTAL", FALSE, FALSE, FALSE),
       Slide("dead_king.png", "GOOD_ENDING_DEAD_KING", FALSE, FALSE, FALSE),
       Slide("ge1.png", "GOOD_ENDING_GE1_REJOICING", FALSE, FALSE, FALSE),
       Slide("ge2.png", "GOOD_ENDING_GE2_CORONATION", FALSE, FALSE, TRUE) >>

FalseJudgementSlides(killer_id) ==
    << Slide("red_cryst.png", "BAD_ENDING_II_RED_CRYSTAL", FALSE, FALSE, FALSE),
       Slide("dead_king.png", "BAD_ENDING_II_DEAD_KING", FALSE, FALSE, FALSE),
       Slide(KillerBe(killer_id),
             CASE killer_id = "queen" -> "BAD_ENDING_II_QUEEN_FREE"
               [] killer_id = "chef" -> "BAD_ENDING_II_CHEF_FREE"
               [] killer_id = "goblin" -> "BAD_ENDING_II_GOBLIN_FREE",
             FALSE, FALSE, TRUE) >>

\* the outcome left out: nothing follows the spell-cast slide
EndingAppendOutcome_Nothing(g, correct) ==
    g

\* _ending_append_outcome(correct)
EndingAppendOutcome(g, correct) ==
    [g EXCEPT !.ending_slides = g.ending_slides \o
        (IF correct THEN GoodSlides ELSE FalseJudgementSlides(g.culprit))]

\* correct with the keys of goblin and queen exchanged
Correct_Swapped(choice, killer_id) ==
    \/ choice = 3 /\ killer_id = "goblin"
    \/ choice = 2 /\ killer_id = "chef"
    \/ choice = 1 /\ killer_id = "queen"

\* correct, as _update_ending computes it from the choice and the culprit
Correct(choice, killer_id) ==
    \/ choice = 1 /\ killer_id = "goblin"
    \/ choice = 2 /\ killer_id = "chef"
    \/ choice = 3 /\ killer_id = "queen"

\* ------------------------------------------------------------------------
\* Snapshot / evidence ledger
\* ------------------------------------------------------------------------
\* self.scenes[idx], a negative idx counting from the end as a list index does
SceneAt(g, idx) == g.scenes[IF idx < 0 THEN idx + 6 ELSE idx]

Snapshot(scene_label, p_queen, p_chef, p_goblin, trigger) ==
    [scene_label |-> scene_label, points_queen |-> p_queen,
     points_chef |-> p_chef, points_goblin |-> p_goblin,
     trigger_artifact_filename |-> trigger]

\* the loop of _take_snapshot: p_<suspect> += art.points over all artifacts
RECURSIVE ScenePoints(_, _)
ScenePoints(arts, suspect_id) ==
    IF arts = << >> THEN 0
    ELSE (IF Head(arts).suspect_id = suspect_id THEN Head(arts).points ELSE 0)
         + ScenePoints(Tail(arts), suspect_id)

\* the loop of _take_snapshot_from_popup: the points of the first artifact
\* whose spec_filename is the popup's, credited to its suspect
RECURSIVE ArtifactPoints(_, _, _)
ArtifactPoints(arts, filename, suspect_id) ==
    IF arts = << >> THEN 0
    ELSE IF Head(arts).spec_filename # filename
    THEN ArtifactPoints(Tail(arts), filename, suspect_id)
    ELSE IF Head(arts).suspect_id = suspect_id THEN Head(arts).points ELSE 0

\* _take_snapshot without its test of MAX_SNAPSHOTS
TakeSnapshot_NoCap(g) ==
    LET scene == SceneAt(g, g.current_scene_index)
    IN  [g EXCEPT
           !.snapshot_effect_time = 0,
           !.snapshots = Append(g.snapshots,
               Snapshot(scene.label,
                        ScenePoints(scene.artifacts, "queen"),
                        ScenePoints(scene.artifacts, "chef"),
                        ScenePoints(scene.artifacts, "goblin"),
                        None)),
           !.state = "snapshot_effect"]

\* _take_snapshot (S key in scene)
TakeSnapshot(g) ==
    IF Len(g.snapshots) >= MAX_SNAPSHOTS THEN g
    ELSE LET scene == SceneAt(g, g.current_scene_index)
         IN  [g EXCEPT
                !.snapshot_effect_time = 0,
                !.snapshots = Append(g.snapshots,
                    Snapshot(scene.label,
                             ScenePoints(scene.artifacts, "queen"),
                             ScenePoints(scene.artifacts, "chef"),
                             ScenePoints(scene.artifacts, "goblin"),
                             None)),
                !.state = "snapshot_effect"]

\* _take_snapshot_from_popup taking the points of the captured artifact away
TakeSnapshotFromPopup_Consumes(g) ==
    IF Len(g.snapshots) >= MAX_SNAPSHOTS THEN g
    ELSE IF g.popup_scene_index < 0 THEN g
    ELSE LET scene == SceneAt(g, g.popup_scene_index)
             fn == g.popup_artifact_filename
             i == IF g.popup_scene_index < 0 THEN g.popup_scene_index + 6
                  ELSE g.popup_scene_index
         IN  [g EXCEPT
                !.snapshot_effect_time = 0,
                !.snapshots = Append(g.snapshots,
                    Snapshot(scene.label,
                             ArtifactPoints(scene.artifacts, fn, "queen"),
                             ArtifactPoints(scene.artifacts, fn, "chef"),
                             ArtifactPoints(scene.artifacts, fn, "goblin"),
                             fn)),
                !.scenes[i].artifacts =
                    [k \in 1..Len(scene.artifacts) |->
                        IF scene.artifacts[k].spec_filename = fn
                        THEN [scene.artifacts[k] EXCEPT !.points = 0]
                        ELSE scene.artifacts[k]],
                !.state = "snapshot_effect"]

\* _take_snapshot_from_popup recording the points of the whole scene
TakeSnapshotFromPopup_WholeScene(g) ==
    IF Len(g.snapshots) >= MAX_SNAPSHOTS THEN g
    ELSE IF g.popup_scene_index < 0 THEN g
    ELSE LET scene == SceneAt(g, g.popup_scene_index)
             fn == g.popup_artifact_filename
         IN  [g EXCEPT
                !.snapshot_effect_time = 0,
                !.snapshots = Append(g.snapshots,
                    Snapshot(scene.label,
                             ScenePoints(scene.artifacts, "queen"),
                             ScenePoints(scene.artifacts, "chef"),
                             ScenePoints(scene.artifacts, "goblin"),
                             fn)),
                !.state = "snapshot_effect"]

\* _take_snapshot_from_popup
TakeSnapshotFromPopup(g) ==
    IF Len(g.snapshots) >= MAX_SNAPSHOTS THEN g
    ELSE IF g.popup_scene_index < 0 THEN g
    ELSE LET scene == SceneAt(g, g.popup_scene_index)
             fn == g.popup_artifact_filename
         IN  [g EXCEPT
                !.snapshot_effect_time = 0,
                !.snapshots = Append(g.snapshots,
                    Snapshot(scene.label,
                             ArtifactPoints(scene.artifacts, fn, "queen"),
                             ArtifactPoints(scene.artifacts, fn, "chef"),
                             ArtifactPoints(scene.artifacts, fn, "goblin"),
                             fn)),
                !.state = "snapshot_effect"]

\* _close_artifact_popup
CloseArtifactPopup(g) ==
    [g EXCEPT !.state = "scene",
              !.popup_artifact_filename = "",
              !.popup_scene_index = -1]

\* can_uncrystallize_here testing the scene label only
CanUncrystallizeHere_AnyOfScene(g) ==
    /\ g.popup_scene_index >= 0
    /\ \E k \in 1..Len(g.snapshots) :
          g.snapshots[k].scene_label = SceneAt(g, g.popup_scene_index).label

\* can_uncrystallize_here of _handle_artifact_popup_click
CanUncrystallizeHere(g) ==
    /\ g.popup_scene_index >= 0
    /\ \E k \in 1..Len(g.snapshots) :
          /\ g.snapshots[k].scene_label = SceneAt(g, g.popup_scene_index).label
          /\ \/ g.snapshots[k].trigger_artifact_filename = None
             \/ g.snapshots[k].trigger_artifact_filename = g.popup_artifact_filename

\* snaps without its k-th entry (list.pop)
Pop(snaps, k) == SubSeq(snaps, 1, k - 1) \o SubSeq(snaps, k + 1, Len(snaps))

\* the removal loop walking from the oldest snapshot to the most recent
PopLatestOfScene_Oldest(snaps, label) ==
    LET hits == {k \in 1..Len(snaps) : snaps[k].scene_label = label}
    IN  IF hits = {} THEN snaps
        ELSE Pop(snaps, CHOOSE k \in hits : \A j \in hits : k <= j)

\* the removal loop of Uncrystallize: from the most recent snapshot to the
\* oldest, pop the first one whose scene_label is the popup scene's label
PopLatestOfScene(snaps, label) ==
    LET hits == {k \in 1..Len(snaps) : snaps[k].scene_label = label}
    IN  IF hits = {} THEN snaps
        ELSE Pop(snaps, CHOOSE k \in hits : \A j \in hits : j <= k)

\* _handle_artifact_popup_click, pos given by the region it falls in:
\* "x_btn", "cryst_btn", "uncryst_btn", "close_btn", "inside" (the box, on no
\* button) or "outside" (off the box)
HandleArtifactPopupClick(g, region) ==
    IF region = "x_btn" THEN CloseArtifactPopup(g)
    ELSE IF region = "cryst_btn"
    THEN IF Len(g.snapshots) < MAX_SNAPSHOTS
         THEN [TakeSnapshotFromPopup(g) EXCEPT
                  !.popup_artifact_filename = "",
                  !.popup_scene_index = -1]
         ELSE g
    ELSE IF region = "uncryst_btn" /\ CanUncrystallizeHere(g)
    THEN CloseArtifactPopup(
            [g EXCEPT !.snapshots =
                PopLatestOfScene(g.snapshots,
                                 SceneAt(g, g.popup_scene_index).label)])
    ELSE IF region = "close_btn" THEN CloseArtifactPopup(g)
    ELSE IF region = "outside" THEN CloseArtifactPopup(g)
    ELSE g

\* ------------------------------------------------------------------------
\* Menu and scene clicks; a click is <<region, index>>
\* ------------------------------------------------------------------------
\* _handle_menu_click without its test of the countdown
HandleMenuClick_NoGuard(g, click) ==
    IF click[1] = "accuse" THEN StartEnding(g)
    ELSE IF click[1] = "clock"
    THEN [g EXCEPT !.current_scene_index = click[2], !.state = "scene"]
    ELSE g

\* _handle_menu_click: <<"accuse", 0>>, <<"clock", idx>> or <<"nothing", 0>>
HandleMenuClick(g, click) ==
    IF click[1] = "accuse" THEN StartEnding(g)
    ELSE IF g.global_time <= 0 THEN g
    ELSE IF click[1] = "clock"
    THEN [g EXCEPT !.current_scene_index = click[2], !.state = "scene"]
    ELSE g

\* _handle_scene_click: <<"artifact", idx>> is the result of
\* _get_artifact_index_at_pos, <<"nothing", 0>> stands for idx = -1
HandleSceneClick(g, click) ==
    IF click[1] # "artifact" \/ g.current_scene_index < 0 THEN g
    ELSE LET art == SceneAt(g, g.current_scene_index).artifacts[click[2] + 1]
         IN  IF art.spec_filename = "" THEN g
             ELSE IF art.spec_filename \notin ARTIFACT_INFO THEN g
             ELSE [g EXCEPT !.popup_artifact_filename = art.spec_filename,
                            !.popup_scene_index = g.current_scene_index,
                            !.state = "artifact_popup"]

\* the memory popup of the ending, closed as the artifact popup's
\* Uncrystallize closes: the memory shown is removed from the ledger
HandleEndingClick_Forget(g, click) ==
    LET slide == g.ending_slides[g.ending_index + 1]
        script == ScriptOf(slide.script)
    IN  IF /\ g.ending_index < Len(g.ending_slides)
           /\ slide.exit_prompt
           /\ (script = << >> \/ g.ending_text_index >= Len(script))
        THEN [g EXCEPT !.running = FALSE]
        ELSE IF g.ending_memory_popup_index >= 0
        THEN IF click[1] \in {"x_btn", "close_btn", "outside"}
             THEN [g EXCEPT !.ending_memory_popup_index = -1,
                            !.popup_artifact_filename = "",
                            !.snapshots =
                                SubSeq(g.snapshots, 1, Len(g.snapshots) - 1)]
             ELSE g
        ELSE IF click[1] = "thumb" /\ click[2] < Len(g.snapshots)
        THEN [g EXCEPT
                !.ending_memory_popup_index = click[2],
                !.popup_artifact_filename =
                    IF g.snapshots[click[2] + 1].trigger_artifact_filename = None
                    THEN ""
                    ELSE g.snapshots[click[2] + 1].trigger_artifact_filename]
        ELSE g

\* the MOUSEBUTTONDOWN branch of run for state "ending": <<"thumb", idx>> is a
\* memory thumbnail, the popup regions are "x_btn", "close_btn", "inside",
\* "outside"
HandleEndingClick(g, click) ==
    LET slide == g.ending_slides[g.ending_index + 1]
        script == ScriptOf(slide.script)
    IN  IF /\ g.ending_index < Len(g.ending_slides)
           /\ slide.exit_prompt
           /\ (script = << >> \/ g.ending_text_index >= Len(script))
        THEN [g EXCEPT !.running = FALSE]
        ELSE IF g.ending_memory_popup_index >= 0
        THEN IF click[1] \in {"x_btn", "close_btn", "outside"}
             THEN [g EXCEPT !.ending_memory_popup_index = -1,
                            !.popup_artifact_filename = ""]
             ELSE g
        ELSE IF click[1] = "thumb" /\ click[2] < Len(g.snapshots)
        THEN [g EXCEPT
                !.ending_memory_popup_index = click[2],
                !.popup_artifact_filename =
                    IF g.snapshots[click[2] + 1].trigger_artifact_filename = None
                    THEN ""
                    ELSE g.snapshots[click[2] + 1].trigger_artifact_filename]
        ELSE g

\* the regions a click can fall in, by state; clocks and artifacts are the
\* clock regions and the artifact indices the player clicks
ClickTargets(g, clocks, artifacts) ==
    CASE g.state = "menu" ->
            {<<"accuse", 0>>, <<"nothing", 0>>}
                \cup {<<"clock", i>> : i \in clocks}
      [] g.state = "scene" ->
            {<<"nothing", 0>>} \cup
            {<<"artifact", i>> : i \in artifacts \cap
                0..(Len(SceneAt(g, g.current_scene_index).artifacts) - 1)}
      [] g.state = "artifact_popup" ->
            {<<r, 0>> : r \in {"x_btn", "cryst_btn", "uncryst_btn",
                               "close_btn", "inside", "outside"}}
      [] g.state = "ending" ->
            {<<"nothing", 0>>}
      [] OTHER -> {<<"nothing", 0>>}

\* ------------------------------------------------------------------------
\* Per-tick updates
\* ------------------------------------------------------------------------
\* the typing loop "while accumulator >= 1.0 and char_index < len(full_text):
\* char_index += 1; accumulator -= 1.0", then the reset at full reveal;
\* returns <<char_index, accumulator>>
RECURSIVE TypeChars(_, _, _)
TypeChars(char_index, accumulator, length) ==
    IF accumulator >= 1000 /\ char_index < length
    THEN TypeChars(char_index + 1, accumulator - 1000, length)
    ELSE IF char_index >= length THEN <<char_index, 0>>
    ELSE <<char_index, accumulator>>

\* _update_opening ending the fade_in after the duration of the fade_out
UpdateOpening_ShortFadeIn(g, dt) ==
    LET timer == g.opening_timer + dt
        g1 == [g EXCEPT !.opening_timer = timer]
    IN  IF g.opening_phase = "fade_in"
        THEN IF timer >= OPENING_FADE_OUT_DURATION
             THEN [g1 EXCEPT !.opening_phase = "holding",
                             !.opening_timer = 0,
                             !.opening_text_index = 0,
                             !.opening_char_index = 0,
                             !.opening_typing_accumulator = 0]
             ELSE g1
        ELSE IF g.opening_phase = "holding"
        THEN IF /\ g.opening_slide_index < Len(OPENING_SCRIPT)
                /\ g.opening_text_index
                      < Len(OPENING_SCRIPT[g.opening_slide_index + 1])
             THEN LET full_text == OPENING_SCRIPT[g.opening_slide_index + 1]
                                                 [g.opening_text_index + 1]
                      typed == TypeChars(g.opening_char_index,
                                  g.opening_typing_accumulator
                                      + dt * OPENING_TYPING_CPS,
                                  full_text)
                  IN  [g1 EXCEPT !.opening_char_index = typed[1],
                                 !.opening_typing_accumulator = typed[2]]
             ELSE g1
        ELSE IF timer >= OPENING_FADE_OUT_DURATION
             THEN IF g.opening_slide_index + 1 >= NUM_OPENING_IMAGES
                  THEN [g1 EXCEPT !.opening_timer = 0,
                                  !.state = "menu",
                                  !.opening_slide_index = 0]
                  ELSE [g1 EXCEPT !.opening_timer = 0,
                                  !.opening_slide_index = g.opening_slide_index + 1,
                                  !.opening_phase = "fade_in"]
             ELSE g1

\* _update_opening
UpdateOpening(g, dt) ==
    LET timer == g.opening_timer + dt
        g1 == [g EXCEPT !.opening_timer = timer]
    IN  IF g.opening_phase = "fade_in"
        THEN IF timer >= OPENING_FADE_IN_DURATION
             THEN [g1 EXCEPT !.opening_phase = "holding",
                             !.opening_timer = 0,
                             !.opening_text_index = 0,
                             !.opening_char_index = 0,
                             !.opening_typing_accumulator = 0]
             ELSE g1
        ELSE IF g.opening_phase = "holding"
        THEN IF /\ g.opening_slide_index < Len(OPENING_SCRIPT)
                /\ g.opening_text_index
                      < Len(OPENING_SCRIPT[g.opening_slide_index + 1])
             THEN LET full_text == OPENING_SCRIPT[g.opening_slide_index + 1]
                                                 [g.opening_text_index + 1]
                      typed == TypeChars(g.opening_char_index,
                                  g.opening_typing_accumulator
                                      + dt * OPENING_TYPING_CPS,
                                  full_text)
                  IN  [g1 EXCEPT !.opening_char_index = typed[1],
                                 !.opening_typing_accumulator = typed[2]]
             ELSE g1
        ELSE IF timer >= OPENING_FADE_OUT_DURATION
             THEN IF g.opening_slide_index + 1 >= NUM_OPENING_IMAGES
                  THEN [g1 EXCEPT !.opening_timer = 0,
                                  !.state = "menu",
                                  !.opening_slide_index = 0]
                  ELSE [g1 EXCEPT !.opening_timer = 0,
                                  !.opening_slide_index = g.opening_slide_index + 1,
                                  !.opening_phase = "fade_in"]
             ELSE g1

\* _update_ending moving to the next slide without resetting the script state
UpdateEnding_NoReset(g, dt) ==
    LET timer == g.ending_timer + dt
        g1 == [g EXCEPT !.ending_timer = timer]
        has_slide == g.ending_index < Len(g.ending_slides)
        script == IF has_slide
                  THEN ScriptOf(g.ending_slides[g.ending_index + 1].script)
                  ELSE << >>
    IN  IF g.ending_phase = "fade_in"
        THEN IF timer >= ENDING_FADE_IN
             THEN [g1 EXCEPT !.ending_phase = "holding",
                             !.ending_timer = 0,
                             !.ending_text_index = 0,
                             !.ending_char_index = 0,
                             !.ending_typing_accumulator = 0]
             ELSE g1
        ELSE IF g.ending_phase = "holding"
        THEN IF script # << >> /\ g.ending_text_index < Len(script)
             THEN LET typed == TypeChars(g.ending_char_index,
                                  g.ending_typing_accumulator
                                      + dt * ENDING_TYPING_CPS,
                                  script[g.ending_text_index + 1])
                  IN  [g1 EXCEPT !.ending_char_index = typed[1],
                                 !.ending_typing_accumulator = typed[2]]
             ELSE g1
        ELSE IF timer >= ENDING_FADE_OUT
             THEN LET prev_index == g.ending_index
                      g2 == IF /\ prev_index < Len(g.ending_slides)
                               /\ g.ending_slides[prev_index + 1].image
                                     = "mage_cooking.png"
                            THEN EndingAppendOutcome(g1,
                                    Correct(g.ending_player_choice, g.culprit))
                            ELSE g1
                  IN  [g2 EXCEPT
                         !.ending_index = prev_index + 1,
                         !.ending_timer = 0,
                         !.ending_phase =
                            IF prev_index + 1 < Len(g2.ending_slides)
                            THEN "fade_in" ELSE "holding"]
             ELSE g1

\* _update_ending
UpdateEnding(g, dt) ==
    LET timer == g.ending_timer + dt
        g1 == [g EXCEPT !.ending_timer = timer]
        has_slide == g.ending_index < Len(g.ending_slides)
        script == IF has_slide
                  THEN ScriptOf(g.ending_slides[g.ending_index + 1].script)
                  ELSE << >>
    IN  IF g.ending_phase = "fade_in"
        THEN IF timer >= ENDING_FADE_IN
             THEN [g1 EXCEPT !.ending_phase = "holding",
                             !.ending_timer = 0,
                             !.ending_text_index = 0,
                             !.ending_char_index = 0,
                             !.ending_typing_accumulator = 0]
             ELSE g1
        ELSE IF g.ending_phase = "holding"
        THEN IF script # << >> /\ g.ending_text_index < Len(script)
             THEN LET typed == TypeChars(g.ending_char_index,
                                  g.ending_typing_accumulator
                                      + dt * ENDING_TYPING_CPS,
                                  script[g.ending_text_index + 1])
                  IN  [g1 EXCEPT !.ending_char_index = typed[1],
                                 !.ending_typing_accumulator = typed[2]]
             ELSE g1
        ELSE IF timer >= ENDING_FADE_OUT
             THEN LET prev_index == g.ending_index
                      g2 == IF /\ prev_index < Len(g.ending_slides)
                               /\ g.ending_slides[prev_index + 1].image
                                     = "mage_cooking.png"
                            THEN EndingAppendOutcome(g1,
                                    Correct(g.ending_player_choice, g.culprit))
                            ELSE g1
                  IN  [g2 EXCEPT
                         !.ending_index = prev_index + 1,
                         !.ending_timer = 0,
                         !.ending_text_index = 0,
                         !.ending_char_index = 0,
                         !.ending_typing_accumulator = 0,
                         !.ending_phase =
                            IF prev_index + 1 < Len(g2.ending_slides)
                            THEN "fade_in" ELSE "holding"]
             ELSE g1

\* self.sounds["ominous"].play(loops=-1): one more channel of the mixer plays
\* the loop
PlayOminous(g) ==
    [g EXCEPT !.ominous_channels = g.ominous_channels + 1,
              !.ominous_playing = TRUE]

\* the stop of the ominous loop guarded by "ominous_playing and self.sounds":
\* Sound.stop() ends the sound on every channel that plays it
StopOminous(g) ==
    IF g.ominous_playing /\ g.sounds
    THEN [g EXCEPT !.ominous_playing = FALSE, !.ominous_channels = 0]
    ELSE g

\* _update_global_timer starting the ending one step late: on the step that
\* finds the countdown already empty
UpdateGlobalTimer_Late(g, dt) ==
    LET g1 == IF g.global_time > 0
              THEN [g EXCEPT !.global_time = Max(0, g.global_time - dt)]
              ELSE StopOminous(
                      [StartEnding(g) EXCEPT !.current_scene_index = -1])
    IN  IF Len(g1.snapshots) >= MAX_SNAPSHOTS /\ g1.state = "menu"
        THEN StartEnding(g1)
        ELSE g1

\* _update_global_timer starting the ending at the cap in any state
UpdateGlobalTimer_AnyState(g, dt) ==
    LET g1 == IF g.global_time > 0
              THEN LET t == Max(0, g.global_time - dt)
                       g0 == [g EXCEPT !.global_time = t]
                   IN  IF t = 0
                       THEN StopOminous(
                               [StartEnding(g0) EXCEPT !.current_scene_index = -1])
                       ELSE g0
              ELSE g
    IN  IF Len(g1.snapshots) >= MAX_SNAPSHOTS /\ g1.state # "ending"
        THEN StartEnding(g1)
        ELSE g1

\* _update_global_timer leaving the active scene selected at expiry
UpdateGlobalTimer_NoClear(g, dt) ==
    LET g1 == IF g.global_time > 0
              THEN LET t == Max(0, g.global_time - dt)
                       g0 == [g EXCEPT !.global_time = t]
                   IN  IF t = 0 THEN StopOminous(StartEnding(g0)) ELSE g0
              ELSE g
    IN  IF Len(g1.snapshots) >= MAX_SNAPSHOTS /\ g1.state = "menu"
        THEN StartEnding(g1)
        ELSE g1

\* _update_global_timer
UpdateGlobalTimer(g, dt) ==
    LET g1 == IF g.global_time > 0
              THEN LET t == Max(0, g.global_time - dt)
                       g0 == [g EXCEPT !.global_time = t]
                   IN  IF t = 0
                       THEN StopOminous(
                               [StartEnding(g0) EXCEPT !.current_scene_index = -1])
                       ELSE g0
              ELSE g
    IN  IF Len(g1.snapshots) >= MAX_SNAPSHOTS /\ g1.state = "menu"
        THEN StartEnding(g1)
        ELSE g1

\* _update_scene starting the ominous loop whether or not it is playing
UpdateScene_Restart(g, dt) ==
    IF g.current_scene_index < 0 THEN g
    ELSE LET i == g.current_scene_index
             g1 == IF i < 6
                   THEN [g EXCEPT !.scene_fade_progress[i] =
                            Min(SCENE_FADE_DURATION, g.scene_fade_progress[i] + dt)]
                   ELSE g
         IN  IF g.global_time < OMINOUS_BELOW /\ g.global_time > 0
             THEN IF g.sounds
                  THEN PlayOminous(g1)
                  ELSE g1
             ELSE StopOminous(g1)

\* _update_scene advancing the fade of every scene
UpdateScene_EveryScene(g, dt) ==
    IF g.current_scene_index < 0 THEN g
    ELSE LET i == g.current_scene_index
             g1 == IF i < 6
                   THEN [g EXCEPT !.scene_fade_progress =
                            [j \in 0..5 |->
                                Min(SCENE_FADE_DURATION,
                                    g.scene_fade_progress[j] + dt)]]
                   ELSE g
         IN  IF g.global_time < OMINOUS_BELOW /\ g.global_time > 0
             THEN IF ~g.ominous_playing /\ g.sounds
                  THEN PlayOminous(g1)
                  ELSE g1
             ELSE StopOminous(g1)

\* _update_scene
UpdateScene(g, dt) ==
    IF g.current_scene_index < 0 THEN g
    ELSE LET i == g.current_scene_index
             g1 == IF i < 6
                   THEN [g EXCEPT !.scene_fade_progress[i] =
                            Min(SCENE_FADE_DURATION, g.scene_fade_progress[i] + dt)]
                   ELSE g
         IN  IF g.global_time < OMINOUS_BELOW /\ g.global_time > 0
             THEN IF ~g.ominous_playing /\ g.sounds
                  THEN PlayOminous(g1)
                  ELSE g1
             ELSE StopOminous(g1)

\* _update_snapshot_effect returning to the menu with the scene still selected
UpdateSnapshotEffect_KeepScene(g, dt) ==
    LET t == g.snapshot_effect_time + dt
        g1 == [g EXCEPT !.snapshot_effect_time = t]
    IN  IF t > SNAPSHOT_EFFECT_DURATION
        THEN [g1 EXCEPT !.state = "menu"]
        ELSE g1

\* _update_snapshot_effect leaving the effect at 0.4 s, not after it
UpdateSnapshotEffect_AtLeast(g, dt) ==
    LET t == g.snapshot_effect_time + dt
        g1 == [g EXCEPT !.snapshot_effect_time = t]
    IN  IF t >= SNAPSHOT_EFFECT_DURATION
        THEN [g1 EXCEPT !.state = "menu", !.current_scene_index = -1]
        ELSE g1

\* _update_snapshot_effect
UpdateSnapshotEffect(g, dt) ==
    LET t == g.snapshot_effect_time + dt
        g1 == [g EXCEPT !.snapshot_effect_time = t]
    IN  IF t > SNAPSHOT_EFFECT_DURATION
        THEN [g1 EXCEPT !.state = "menu", !.current_scene_index = -1]
        ELSE g1

\* the update of run with the countdown running in the ending too
Update_CountsInEnding(g, dt) ==
    LET g1 == CASE g.state = "opening" -> UpdateOpening(g, dt)
                [] g.state = "menu" -> UpdateGlobalTimer(g, dt)
                [] g.state = "snapshot_effect" -> UpdateSnapshotEffect(g, dt)
                [] g.state = "scene" -> UpdateScene(UpdateGlobalTimer(g, dt), dt)
                [] g.state = "artifact_popup" -> UpdateGlobalTimer(g, dt)
                [] g.state = "ending" ->
                      UpdateEnding([g EXCEPT !.global_time =
                                       Max(0, g.global_time - dt)], dt)
                [] OTHER -> g
    IN  [g1 EXCEPT !.exited = ~g1.running]

\* the state-specific update of one iteration of run, then the loop test
\* "while running"
Update(g, dt) ==
    LET g1 == CASE g.state = "opening" -> UpdateOpening(g, dt)
                [] g.state = "menu" -> UpdateGlobalTimer(g, dt)
                [] g.state = "snapshot_effect" -> UpdateSnapshotEffect(g, dt)
                [] g.state = "scene" -> UpdateScene(UpdateGlobalTimer(g, dt), dt)
                [] g.state = "artifact_popup" -> UpdateGlobalTimer(g, dt)
                [] g.state = "ending" -> UpdateEnding(g, dt)
                [] OTHER -> g
    IN  [g1 EXCEPT !.exited = ~g1.running]

\* ------------------------------------------------------------------------
\* Input events
\* ------------------------------------------------------------------------
\* the accept_123 branch staying on the accusation slide
AcceptChoice_NoJump(g, choice) ==
    [EndingAppendBloodAndContinuation(
        [g EXCEPT !.ending_player_choice = choice]) EXCEPT
        !.ending_phase = "fade_in",
        !.ending_timer = 0,
        !.ending_text_index = 0,
        !.ending_char_index = 0,
        !.ending_typing_accumulator = 0]

\* the accept_123 branch appending the outcome slides with the continuation
AcceptChoice_Eager(g, choice) ==
    [EndingAppendOutcome(
        EndingAppendBloodAndContinuation(
            [g EXCEPT !.ending_player_choice = choice]),
        Correct(choice, g.culprit)) EXCEPT
        !.ending_index = g.ending_index + 1,
        !.ending_phase = "fade_in",
        !.ending_timer = 0,
        !.ending_text_index = 0,
        !.ending_char_index = 0,
        !.ending_typing_accumulator = 0]

\* the accept_123 branch of run: the choice, the continuation, the jump
AcceptChoice(g, choice) ==
    [EndingAppendBloodAndContinuation(
        [g EXCEPT !.ending_player_choice = choice]) EXCEPT
        !.ending_index = g.ending_index + 1,
        !.ending_phase = "fade_in",
        !.ending_timer = 0,
        !.ending_text_index = 0,
        !.ending_char_index = 0,
        !.ending_typing_accumulator = 0]

\* the ending key handler moving to the next box with the revealed count kept
HandleEndingKey_KeepReveal(g, key) ==
    IF g.ending_index < Len(g.ending_slides)
    THEN LET slide == g.ending_slides[g.ending_index + 1]
             script == ScriptOf(slide.script)
         IN  IF /\ slide.exit_prompt
                /\ (script = << >> \/ g.ending_text_index >= Len(script))
             THEN [g EXCEPT !.running = FALSE]
             ELSE IF slide.accept_123
             THEN CASE key = "1" -> AcceptChoice(g, 1)
                    [] key = "2" -> AcceptChoice(g, 2)
                    [] key = "3" -> AcceptChoice(g, 3)
                    [] OTHER -> g
             ELSE IF g.ending_phase = "holding" /\ key = "RIGHT"
             THEN IF script # << >> /\ g.ending_text_index < Len(script)
                  THEN LET full_text == script[g.ending_text_index + 1]
                           char_index == IF g.ending_char_index < full_text
                                         THEN full_text
                                         ELSE g.ending_char_index
                           g1 == [g EXCEPT !.ending_char_index = char_index]
                       IN  IF char_index >= full_text
                           THEN IF g.ending_text_index + 1 < Len(script)
                                THEN [g1 EXCEPT
                                        !.ending_text_index = g.ending_text_index + 1,
                                        !.ending_typing_accumulator = 0]
                                ELSE IF slide.exit_prompt
                                THEN [g1 EXCEPT !.ending_text_index = Len(script)]
                                ELSE [g1 EXCEPT !.ending_phase = "fade_out",
                                                !.ending_timer = 0]
                           ELSE g1
                  ELSE [g EXCEPT !.ending_phase = "fade_out",
                                 !.ending_timer = 0]
             ELSE g
    ELSE g

\* the KEYDOWN branch of run for state "ending" (any key but Escape)
HandleEndingKey(g, key) ==
    IF g.ending_index < Len(g.ending_slides)
    THEN LET slide == g.ending_slides[g.ending_index + 1]
             script == ScriptOf(slide.script)
         IN  IF /\ slide.exit_prompt
                /\ (script = << >> \/ g.ending_text_index >= Len(script))
             THEN [g EXCEPT !.running = FALSE]
             ELSE IF slide.accept_123
             THEN CASE key = "1" -> AcceptChoice(g, 1)
                    [] key = "2" -> AcceptChoice(g, 2)
                    [] key = "3" -> AcceptChoice(g, 3)
                    [] OTHER -> g
             ELSE IF g.ending_phase = "holding" /\ key = "RIGHT"
             THEN IF script # << >> /\ g.ending_text_index < Len(script)
                  THEN LET full_text == script[g.ending_text_index + 1]
                           char_index == IF g.ending_char_index < full_text
                                         THEN full_text
                                         ELSE g.ending_char_index
                           g1 == [g EXCEPT !.ending_char_index = char_index]
                       IN  IF char_index >= full_text
                           THEN IF g.ending_text_index + 1 < Len(script)
                                THEN [g1 EXCEPT
                                        !.ending_text_index = g.ending_text_index + 1,
                                        !.ending_char_index = 0,
                                        !.ending_typing_accumulator = 0]
                                ELSE IF slide.exit_prompt
                                THEN [g1 EXCEPT !.ending_text_index = Len(script)]
                                ELSE [g1 EXCEPT !.ending_phase = "fade_out",
                                                !.ending_timer = 0]
                           ELSE g1
                  ELSE [g EXCEPT !.ending_phase = "fade_out",
                                 !.ending_timer = 0]
             ELSE g
    ELSE g

\* K_RIGHT in the opening completing a partly typed box without advancing
HandleOpeningRight_RevealOnly(g) ==
    IF g.opening_phase # "holding" THEN g
    ELSE LET slide_idx == g.opening_slide_index
             script == IF slide_idx < Len(OPENING_SCRIPT)
                       THEN OPENING_SCRIPT[slide_idx + 1] ELSE << >>
         IN  IF g.opening_text_index < Len(script)
             THEN LET full_text == script[g.opening_text_index + 1]
                  IN  IF g.opening_char_index < full_text
                      THEN [g EXCEPT !.opening_char_index = full_text]
                      ELSE IF g.opening_text_index + 1 < Len(script)
                      THEN [g EXCEPT
                              !.opening_text_index = g.opening_text_index + 1,
                              !.opening_char_index = 0,
                              !.opening_typing_accumulator = 0]
                      ELSE [g EXCEPT !.opening_phase = "fade_out",
                                     !.opening_timer = 0]
             ELSE [g EXCEPT !.opening_phase = "fade_out",
                            !.opening_timer = 0]

\* the KEYDOWN branch of run for state "opening" and K_RIGHT
HandleOpeningRight(g) ==
    IF g.opening_phase # "holding" THEN g
    ELSE LET slide_idx == g.opening_slide_index
             script == IF slide_idx < Len(OPENING_SCRIPT)
                       THEN OPENING_SCRIPT[slide_idx + 1] ELSE << >>
         IN  IF g.opening_text_index < Len(script)
             THEN LET full_text == script[g.opening_text_index + 1]
                      char_index == IF g.opening_char_index < full_text
                                    THEN full_text
                                    ELSE g.opening_char_index
                      g1 == [g EXCEPT !.opening_char_index = char_index]
                  IN  IF char_index >= full_text
                      THEN IF g.opening_text_index + 1 < Len(script)
                           THEN [g1 EXCEPT
                                   !.opening_text_index = g.opening_text_index + 1,
                                   !.opening_char_index = 0,
                                   !.opening_typing_accumulator = 0]
                           ELSE [g1 EXCEPT !.opening_phase = "fade_out",
                                           !.opening_timer = 0]
                      ELSE g1
             ELSE [g EXCEPT !.opening_phase = "fade_out",
                            !.opening_timer = 0]

\* an exception that nothing catches ends run at once: no further event, no
\* update step, and running is left as it was
Raise(g) == [g EXCEPT !.exited = TRUE]

\* the K_ESCAPE branch of run. In a scene, under "self.ominous_playing and
\* self.sounds", the statement
\*     self.sounds.get("ominous", pygame.mixer.Sound()).stop()
\* evaluates the default pygame.mixer.Sound() before the lookup, and Sound
\* called with no argument raises TypeError: the loop is not stopped and the
\* flag is not cleared
HandleEscape(g) ==
    CASE g.state = "opening" -> [g EXCEPT !.state = "menu"]
      [] g.state = "scene" ->
            LET g1 == [g EXCEPT !.state = "menu",
                                !.current_scene_index = -1]
            IN  IF g.ominous_playing /\ g.sounds THEN Raise(g1) ELSE g1
      [] g.state = "menu" -> [g EXCEPT !.running = FALSE]
      [] OTHER -> g

\* the KEYDOWN branch of run; key is "ESCAPE", "RIGHT", "s", "1", "2", "3"
\* or "SPACE"
HandleKeyDown(g, key) ==
    IF key = "ESCAPE" THEN HandleEscape(g)
    ELSE IF g.state = "ending" THEN HandleEndingKey(g, key)
    ELSE IF g.state = "opening" /\ key = "RIGHT" THEN HandleOpeningRight(g)
    ELSE IF g.state = "scene" /\ key = "s" THEN TakeSnapshot(g)
    ELSE IF g.state = "artifact_popup" /\ key = "ESCAPE"
    THEN CloseArtifactPopup(g)
    ELSE g

\* the MOUSEBUTTONDOWN branch of run (button 1)
HandleMouseDown(g, click) ==
    CASE g.state = "menu" -> HandleMenuClick(g, click)
      [] g.state = "scene" -> HandleSceneClick(g, click)
      [] g.state = "artifact_popup" -> HandleArtifactPopupClick(g, click[1])
      [] g.state = "ending" -> HandleEndingClick(g, click)
      [] OTHER -> g

\* ------------------------------------------------------------------------
\* The state machine
\* ------------------------------------------------------------------------
\* scene indices, those holding the most incriminating artifacts first
ClockOrder == <<4, 3, 5, 1, 2, 0>>

PlayedClocks == {ClockOrder[k] : k \in 1..NumClocks}

AllClocks == 0..5

\* the keys pressed during play: Escape, S and a key bound to nothing
PlayKeys == {"ESCAPE", "s", "SPACE"}

\* the keys of the dialogue player and the accusation
AllKeys == {"ESCAPE", "RIGHT", "s", "1", "2", "3", "SPACE"}

TickDts == {DtStall}

\* the image files that fail to load at scene construction
MissingChoices == {{}}

\* whether pygame.mixer.init succeeded (self.sounds is non-empty)
AudioChoices == {TRUE}

MaxHoldTime == MaxHoldTicks * DtStall

\* the state after __init__
Init ==
    /\ culprit \in SuspectIds
    /\ \E missing \in MissingChoices : scenes = BuildScenes(culprit, missing)
    /\ sounds \in AudioChoices
    /\ state = "opening"
    /\ running = TRUE
    /\ exited = FALSE
    /\ global_time = GLOBAL_TIME_LIMIT
    /\ current_scene_index = -1
    /\ snapshots = << >>
    /\ ominous_playing = FALSE
    /\ snapshot_effect_time = 0
    /\ scene_fade_progress = [i \in 0..5 |-> 0]
    /\ popup_artifact_filename = ""
    /\ popup_scene_index = -1
    /\ opening_slide_index = 0
    /\ opening_timer = 0
    /\ opening_phase = "fade_in"
    /\ opening_text_index = 0
    /\ opening_char_index = 0
    /\ opening_typing_accumulator = 0
    /\ ending_slides = << >>
    /\ ending_index = 0
    /\ ending_phase = "fade_in"
    /\ ending_timer = 0
    /\ ending_player_choice = 0
    /\ ending_memory_popup_index = -1
    /\ ending_text_index = 0
    /\ ending_char_index = 0
    /\ ending_typing_accumulator = 0
    /\ ending_builds = 0
    /\ ominous_channels = 0

\* a pygame.QUIT event
Quit ==
    /\ ~exited
    /\ Becomes([Self EXCEPT !.running = FALSE])

\* a KEYDOWN event
KeyDown(key) ==
    /\ ~exited
    /\ Becomes(HandleKeyDown(Self, key))

\* a MOUSEBUTTONDOWN event of button 1
MouseDown(click) ==
    /\ ~exited
    /\ Becomes(HandleMouseDown(Self, click))

\* ticks while a slide is holding are bounded by MaxHoldTime
HoldRoom(dt) ==
    /\ (state = "opening" /\ opening_phase = "holding")
          => opening_timer + dt <= MaxHoldTime
    /\ (state = "ending" /\ ending_phase = "holding")
          => ending_timer + dt <= MaxHoldTime

\* the update step that ends one iteration of run, dt milliseconds long
Tick(dt) ==
    /\ ~exited
    /\ HoldRoom(dt)
    /\ Becomes(Update(Self, dt))

\* the opening is skipped with Escape in the first event drain, before the
\* first update step
SkipsOpening(dts) == IF state = "opening" THEN {} ELSE dts

\* play: every clock region of PlayedClocks, every artifact, every popup
\* button, the keys of PlayKeys
Next ==
    \/ Quit
    \/ \E key \in PlayKeys : KeyDown(key)
    \/ \E click \in ClickTargets(Self, PlayedClocks, 0..2) : MouseDown(click)
    \/ \E dt \in SkipsOpening(TickDts) : Tick(dt)

Spec == Init /\ [][Next]_vars

\* the ending: whole-scene captures only (no popup), then every key of the
\* dialogue player and of the accusation
NextEnding ==
    \/ \E key \in AllKeys : KeyDown(key)
    \/ \E click \in ClickTargets(Self, PlayedClocks, {}) : MouseDown(click)
    \/ \E dt \in SkipsOpening(TickDts) : Tick(dt)

SpecEnding == Init /\ [][NextEnding]_vars

\* ------------------------------------------------------------------------
\* The ledger over all six scenes, one round of play per step: the handlers
\* of a round applied in sequence, from menu back to menu
\* ------------------------------------------------------------------------
\* back to menu: the update step that ends the snapshot effect, or Close and
\* Escape
LeaveToMenu(g) ==
    CASE g.state = "snapshot_effect" -> Update(g, DtStall)
      [] g.state = "artifact_popup" ->
            HandleKeyDown(HandleMouseDown(g, <<"close_btn", 0>>), "ESCAPE")
      [] g.state = "scene" -> HandleKeyDown(g, "ESCAPE")
      [] OTHER -> g

\* Escape in the opening
SkipOpening ==
    /\ state = "opening"
    /\ KeyDown("ESCAPE")

\* click clock i, press S
SceneCapture(i) ==
    /\ state = "menu" /\ ~exited
    /\ Becomes(LeaveToMenu(
          HandleKeyDown(HandleMouseDown(Self, <<"clock", i>>), "s")))

\* click clock i, click artifact k, click the popup button, back to menu
PopupRound(g, i, k, button) ==
    LeaveToMenu(
        HandleMouseDown(
            HandleMouseDown(HandleMouseDown(g, <<"clock", i>>),
                            <<"artifact", k>>),
            <<button, 0>>))

ArtifactCapture(i, k) ==
    /\ state = "menu" /\ ~exited
    /\ Becomes(PopupRound(Self, i, k, "cryst_btn"))

ArtifactUndo(i, k) ==
    /\ state = "menu" /\ ~exited
    /\ Becomes(PopupRound(Self, i, k, "uncryst_btn"))

\* the update step in menu that expires the countdown or finds the cap
MenuExpiry ==
    /\ state = "menu"
    /\ Tick(GLOBAL_TIME_LIMIT)

NextLedger ==
    \/ SkipOpening
    \/ \E i \in AllClocks : SceneCapture(i)
    \/ \E i \in AllClocks, k \in 0..2 : ArtifactCapture(i, k)
    \/ \E i \in AllClocks, k \in 0..2 : ArtifactUndo(i, k)
    \/ MenuExpiry

SpecLedger == Init /\ [][NextLedger]_vars

\* ------------------------------------------------------------------------
\* The dialogue player: the opening played to its end with update steps that
\* type 19 characters each, captures of the scene 18:22, the accusation and
\* the ending, with the continue key and the choice keys
\* ------------------------------------------------------------------------
DialogueDts == {500}

\* the current slide is fading, or its current box is not fully typed yet
RevealPending ==
    \/ /\ state = "opening"
       /\ \/ opening_phase # "holding"
          \/ /\ opening_slide_index < Len(OPENING_SCRIPT)
             /\ opening_text_index
                   < Len(OPENING_SCRIPT[opening_slide_index + 1])
             /\ opening_char_index
                   < OPENING_SCRIPT[opening_slide_index + 1]
                                   [opening_text_index + 1]
    \/ /\ state = "ending"
       /\ ending_index < Len(ending_slides)
       /\ \/ ending_phase # "holding"
          \/ LET script == ScriptOf(ending_slides[ending_index + 1].script)
             IN  /\ ending_text_index < Len(script)
                 /\ ending_char_index < script[ending_text_index + 1]

\* an update step of the dialogue player while something is left to show
TypeTick(dt) ==
    /\ RevealPending
    /\ Tick(dt)

\* K_RIGHT in the opening or the ending
Continue ==
    /\ state \in {"opening", "ending"}
    /\ KeyDown("RIGHT")

\* K_1, K_2 or K_3 in the ending
Choose(key) ==
    /\ state = "ending"
    /\ KeyDown(key)

\* the Accuse button of the menu
Accuse ==
    /\ state = "menu"
    /\ MouseDown(<<"accuse", 0>>)

NextDialogue ==
    \/ \E dt \in DialogueDts : TypeTick(dt)
    \/ Continue
    \/ \E key \in {"1", "2", "3"} : Choose(key)
    \/ SceneCapture(4)
    \/ Accuse

SpecDialogue == Init /\ [][NextDialogue]_vars

\* ------------------------------------------------------------------------
\* The ending specification with the artifact popup opened and closed
\* ------------------------------------------------------------------------
\* every click but Crystallize and Uncrystallize
PeekTargets ==
    ClickTargets(Self, PlayedClocks, 0..2)
        \ {<<"cryst_btn", 0>>, <<"uncryst_btn", 0>>}

\* no update step falls between the click that opens the popup and the click
\* that closes it
NextExit ==
    \/ \E key \in AllKeys : KeyDown(key)
    \/ \E click \in PeekTargets : MouseDown(click)
    \/ \E dt \in SkipsOpening(TickDts) : state # "artifact_popup" /\ Tick(dt)

SpecExit == Init /\ [][NextExit]_vars

\* ------------------------------------------------------------------------
\* Play with the snapshot effect running over update steps of 0.2 s
\* ------------------------------------------------------------------------
EffectDts == {200}

\* an update step during the snapshot effect
EffectTick(dt) ==
    /\ state = "snapshot_effect"
    /\ Tick(dt)

\* an update step in any other state
PlayTick(dt) ==
    /\ state # "snapshot_effect"
    /\ Tick(dt)

NextEffect ==
    \/ \E key \in PlayKeys : KeyDown(key)
    \/ \E click \in ClickTargets(Self, PlayedClocks, 0..2) : MouseDown(click)
    \/ \E dt \in SkipsOpening(TickDts) : PlayTick(dt)
    \/ \E dt \in EffectDts : EffectTick(dt)

SpecEffect == Init /\ [][NextEffect]_vars

\* ------------------------------------------------------------------------
\* Play on scenes built while some artifact images cannot be loaded
\* ------------------------------------------------------------------------
\* the files pygame.image.load fails on: none, or the two images the second
\* artifact of scene 18:22 can be shown with (c5-2.png and its decoy r9.png)
AssetFailures == {{}, {"c5-2.png", "r9.png"}}

\* the state after __init__ when the files of a set of AssetFailures fail
InitAssets ==
    /\ culprit \in SuspectIds
    /\ \E missing \in AssetFailures : scenes = BuildScenes(culprit, missing)
    /\ sounds \in AudioChoices
    /\ state = "opening"
    /\ running = TRUE
    /\ exited = FALSE
    /\ global_time = GLOBAL_TIME_LIMIT
    /\ current_scene_index = -1
    /\ snapshots = << >>
    /\ ominous_playing = FALSE
    /\ snapshot_effect_time = 0
    /\ scene_fade_progress = [i \in 0..5 |-> 0]
    /\ popup_artifact_filename = ""
    /\ popup_scene_index = -1
    /\ opening_slide_index = 0
    /\ opening_timer = 0
    /\ opening_phase = "fade_in"
    /\ opening_text_index = 0
    /\ opening_char_index = 0
    /\ opening_typing_accumulator = 0
    /\ ending_slides = << >>
    /\ ending_index = 0
    /\ ending_phase = "fade_in"
    /\ ending_timer = 0
    /\ ending_player_choice = 0
    /\ ending_memory_popup_index = -1
    /\ ending_text_index = 0
    /\ ending_char_index = 0
    /\ ending_typing_accumulator = 0
    /\ ending_builds = 0
    /\ ominous_channels = 0

NextAssets ==
    \/ \E key \in PlayKeys : KeyDown(key)
    \/ \E click \in ClickTargets(Self, PlayedClocks, 0..2) : MouseDown(click)
    \/ \E dt \in SkipsOpening(TickDts) : Tick(dt)

SpecAssets == InitAssets /\ [][NextAssets]_vars

\* ------------------------------------------------------------------------
\* The typing effect at fixed frames of 1/60 s, in the arithmetic of the
\* program: opening_typing_accumulator is a Python float (IEEE-754 binary64).
\* A float of [0, 2] that is a multiple of 2^-53 is held as <<hi, lo>>, its
\* value being (hi * 2^27 + lo) * 2^-53; the accumulator, the increment of
\* one frame and their sums are of this kind
\* ------------------------------------------------------------------------
FPS == 60

\* 2^27
LIMB == 134217728

\* 1.0
FLOAT_ONE == <<67108864, 0>>

\* 0.0, as in "self.opening_typing_accumulator = 0.0"
FLOAT_ZERO == <<0, 0>>

\* dt * self.OPENING_TYPING_CPS for dt = 1 / 60 and 38 characters per second:
\* the float 0x1.4444444444444p-1 = 5704559528002628 * 2^-53
FRAME_CHARS == <<42502280, 71582788>>

\* "accumulator += dt * cps": the exact sum rounded to a float; below 1.0 the
\* sum is a float already, in [1, 2] floats are 2^-52 apart and a sum half-way
\* between two of them goes to the one with the even significand
FloatAdd(a, b) ==
    LET lo == a[2] + b[2]
        hi == a[1] + b[1] + lo \div LIMB
        low == lo % LIMB
    IN  IF hi >= FLOAT_ONE[1] /\ low % 2 = 1
        THEN IF low % 4 = 1
             THEN <<hi, low - 1>>
             ELSE <<hi + (low + 1) \div LIMB, (low + 1) % LIMB>>
        ELSE <<hi, low>>

\* "accumulator >= 1.0"
FloatAtLeastOne(a) == a[1] >= FLOAT_ONE[1]

\* "accumulator -= 1.0", exact for an accumulator of [1, 2]
FloatMinusOne(a) == <<a[1] - FLOAT_ONE[1], a[2]>>

\* the typing loop on floats keeping the rest of the accumulator at full reveal
RECURSIVE TypeCharsFloat_Carry(_, _, _)
TypeCharsFloat_Carry(char_index, accumulator, length) ==
    IF FloatAtLeastOne(accumulator) /\ char_index < length
    THEN TypeCharsFloat_Carry(char_index + 1, FloatMinusOne(accumulator), length)
    ELSE <<char_index, accumulator>>

\* the typing loop and the reset at full reveal on floats; returns
\* <<char_index, accumulator>>
RECURSIVE TypeCharsFloat(_, _, _)
TypeCharsFloat(char_index, accumulator, length) ==
    IF FloatAtLeastOne(accumulator) /\ char_index < length
    THEN TypeCharsFloat(char_index + 1, FloatMinusOne(accumulator), length)
    ELSE IF char_index >= length THEN <<char_index, FLOAT_ZERO>>
    ELSE <<char_index, accumulator>>

\* _update_opening for dt = 1 / 60 in the holding phase; opening_timer, the
\* sum of the frame times, is held as the number of frames
UpdateOpeningFrame(g) ==
    LET g1 == [g EXCEPT !.opening_timer = g.opening_timer + 1]
    IN  IF /\ g.opening_slide_index < Len(OPENING_SCRIPT)
           /\ g.opening_text_index
                 < Len(OPENING_SCRIPT[g.opening_slide_index + 1])
        THEN LET full_text == OPENING_SCRIPT[g.opening_slide_index + 1]
                                            [g.opening_text_index + 1]
                 typed == TypeCharsFloat(g.opening_char_index,
                             FloatAdd(g.opening_typing_accumulator,
                                      FRAME_CHARS),
                             full_text)
             IN  [g1 EXCEPT !.opening_char_index = typed[1],
                            !.opening_typing_accumulator = typed[2]]
        ELSE g1

\* frames played after the ceil(L / 38) seconds of a box
ExtraFrames == 2

\* the frames of ceil(length / 38) seconds
FramesToReveal(length) ==
    FPS * ((length + OPENING_TYPING_CPS - 1) \div OPENING_TYPING_CPS)

\* the holding phase of any slide of the opening at any of its boxes, as it
\* is after the fade-in and continue presses handled before the next update
InitReveal ==
    /\ culprit \in SuspectIds
    /\ scenes = BuildScenes(culprit, {})
    /\ sounds \in AudioChoices
    /\ state = "opening"
    /\ running = TRUE
    /\ exited = FALSE
    /\ global_time = GLOBAL_TIME_LIMIT
    /\ current_scene_index = -1
    /\ snapshots = << >>
    /\ ominous_playing = FALSE
    /\ snapshot_effect_time = 0
    /\ scene_fade_progress = [i \in 0..5 |-> 0]
    /\ popup_artifact_filename = ""
    /\ popup_scene_index = -1
    /\ opening_slide_index \in 0..(Len(OPENING_SCRIPT) - 1)
    /\ opening_timer = 0
    /\ opening_phase = "holding"
    /\ opening_text_index
          \in 0..(Len(OPENING_SCRIPT[opening_slide_index + 1]) - 1)
    /\ opening_char_index = 0
    /\ opening_typing_accumulator = FLOAT_ZERO
    /\ ending_slides = << >>
    /\ ending_index = 0
    /\ ending_phase = "fade_in"
    /\ ending_timer = 0
    /\ ending_player_choice = 0
    /\ ending_memory_popup_index = -1
    /\ ending_text_index = 0
    /\ ending_char_index = 0
    /\ ending_typing_accumulator = 0
    /\ ending_builds = 0
    /\ ominous_channels = 0

\* one frame of the holding phase
Frame ==
    /\ state = "opening"
    /\ opening_phase = "holding"
    /\ opening_timer
          < FramesToReveal(OPENING_SCRIPT[opening_slide_index + 1]
                                         [opening_text_index + 1])
              + ExtraFrames
    /\ Becomes(UpdateOpeningFrame(Self))

NextReveal == Frame

SpecReveal == InitReveal /\ [][NextReveal]_vars

\* ------------------------------------------------------------------------
\* The fade of two scenes, with update steps of seven seconds
\* ------------------------------------------------------------------------
FadeClocks == {ClockOrder[1], ClockOrder[2]}

FadeDts == {7000}

NextFade ==
    \/ \E key \in PlayKeys : KeyDown(key)
    \/ \E click \in ClickTargets(Self, FadeClocks, {}) : MouseDown(click)
    \/ \E dt \in SkipsOpening(FadeDts) : Tick(dt)

SpecFade == Init /\ [][NextFade]_vars

\* ------------------------------------------------------------------------
\* Play under continuing update steps: no quit event and no Escape after the
\* opening; update steps are taken for as long as the run lasts
\* ------------------------------------------------------------------------
LiveTick == \E dt \in SkipsOpening(TickDts) : Tick(dt)

NextLive ==
    \/ SkipOpening
    \/ \E key \in {"s", "SPACE"} : KeyDown(key)
    \/ \E click \in ClickTargets(Self, PlayedClocks, {0}) : MouseDown(click)
    \/ LiveTick

SpecLive == Init /\ [][NextLive]_vars /\ WF_vars(LiveTick)

\* ------------------------------------------------------------------------
\* The ending with its memory thumbnails: the play of NextEnding, and in the
\* ending the clicks on a thumbnail and on the regions of the memory popup
\* ------------------------------------------------------------------------
MemoryClicks ==
    {<<"thumb", i>> : i \in 0..(MAX_SNAPSHOTS - 1)}
        \cup {<<r, 0>> : r \in {"x_btn", "close_btn", "inside", "outside"}}

NextMemories ==
    \/ \E key \in AllKeys : KeyDown(key)
    \/ \E click \in ClickTargets(Self, PlayedClocks, {}) : MouseDown(click)
    \/ \E click \in MemoryClicks : state = "ending" /\ MouseDown(click)
    \/ \E dt \in SkipsOpening(TickDts) : Tick(dt)

SpecMemories == Init /\ [][NextMemories]_vars

\* ------------------------------------------------------------------------
\* Properties
\* ------------------------------------------------------------------------
TickStep == \E dt \in TickDts : Tick(dt)

CaptureAttempt ==
    \/ state = "scene" /\ KeyDown("s")
    \/ state = "artifact_popup" /\ MouseDown(<<"cryst_btn", 0>>)

\* C1: the ledger never holds more than MAX_SNAPSHOTS snapshots, and a capture
\* attempt (S in scene, Crystallize in the popup) made at the cap changes
\* neither the ledger nor any other part of the game state.
C1_SnapshotCap ==
    /\ [](Len(snapshots) <= MAX_SNAPSHOTS)
    /\ [][(Len(snapshots) >= MAX_SNAPSHOTS /\ CaptureAttempt)
            => UNCHANGED vars]_vars

C1_Witness == state = "artifact_popup" /\ Len(snapshots) = MAX_SNAPSHOTS

\* the snapshot the claimed undo rule removes: the most recent one of the
\* scene whose trigger is the open artifact or empty
PopLatestMatching(snaps, label, filename) ==
    LET hits == {k \in 1..Len(snaps) :
                    /\ snaps[k].scene_label = label
                    /\ snaps[k].trigger_artifact_filename \in {None, filename}}
    IN  IF hits = {} THEN snaps
        ELSE Pop(snaps, CHOOSE k \in hits : \A j \in hits : j <= k)

\* C2: Uncrystallize in the popup of artifact K of scene S removes the most
\* recent snapshot of S whose trigger is K or empty, never a snapshot of S
\* that another artifact triggered.
C2_UndoRemovesMatching ==
    [][(state = "artifact_popup" /\ MouseDown(<<"uncryst_btn", 0>>))
        => snapshots' = PopLatestMatching(snapshots,
                            scenes[popup_scene_index].label,
                            popup_artifact_filename)]_vars

\* C3: on every tick in menu, scene, artifact_popup or snapshot_effect with
\* the countdown above zero, the countdown strictly decreases by the tick's
\* length (down to zero at most).
C3_CountdownNeverPauses ==
    [][\A dt \in TickDts :
        (/\ Tick(dt)
         /\ state \in {"menu", "scene", "artifact_popup", "snapshot_effect"}
         /\ global_time > 0)
        => /\ global_time' < global_time
           /\ global_time' = Max(0, global_time - dt)]_vars

\* C4: when a tick in menu, scene or artifact_popup takes the countdown to
\* zero, that tick ends in state ending, has built the ending script exactly
\* once and has cleared the active scene.
C4_ExpiryStartsEnding ==
    [][(/\ state \in {"menu", "scene", "artifact_popup"}
        /\ global_time > 0
        /\ global_time' = 0)
        => /\ state' = "ending"
           /\ ending_builds' = ending_builds + 1
           /\ current_scene_index' = -1]_vars

C4_Witness ==
    state = "ending" /\ global_time = 0 /\ ending_builds = 1
        /\ current_scene_index = -1

\* C5: an update step in menu with a full ledger starts the ending; a full
\* ledger does not start it from scene, artifact_popup or snapshot_effect
\* while the countdown stays above zero; the Accuse button starts it whatever
\* the ledger holds.
C5_CapStartsEndingInMenuOnly ==
    [][/\ (TickStep /\ state = "menu" /\ Len(snapshots) >= MAX_SNAPSHOTS)
            => (state' = "ending" /\ ending_builds' = ending_builds + 1)
       /\ (/\ TickStep
           /\ state \in {"scene", "artifact_popup", "snapshot_effect"}
           /\ Len(snapshots) >= MAX_SNAPSHOTS
           /\ global_time' > 0)
            => (state' # "ending" /\ ending_builds' = ending_builds)
       /\ (state = "menu" /\ MouseDown(<<"accuse", 0>>))
            => (state' = "ending" /\ ending_builds' = ending_builds + 1)]_vars

C5_Witness ==
    state = "scene" /\ Len(snapshots) = MAX_SNAPSHOTS /\ global_time > 0
        /\ global_time < GLOBAL_TIME_LIMIT

\* the escape script of Bad Ending I and II that names suspect c
EscapeScriptI(c) ==
    CASE c = "queen" -> "BAD_ENDING_QUEEN_FREE"
      [] c = "chef" -> "BAD_ENDING_CHEF_FREE"
      [] c = "goblin" -> "BAD_ENDING_GOBLIN_FREE"

EscapeScriptII(c) ==
    CASE c = "queen" -> "BAD_ENDING_II_QUEEN_FREE"
      [] c = "chef" -> "BAD_ENDING_II_CHEF_FREE"
      [] c = "goblin" -> "BAD_ENDING_II_GOBLIN_FREE"

EscapeImage(c) ==
    CASE c = "queen" -> "queen_be.png"
      [] c = "chef" -> "chef_be.png"
      [] c = "goblin" -> "gob_be.png"

\* only the last of the slides first..last of the list is exit-flagged
OnlyLastExits(slides, first, last) ==
    \A k \in first..last : slides[k].exit_prompt <=> (k = last)

\* C6: when the ending is triggered, the 3-slide failure branch (red crystal,
\* dead king, the culprit's escape slide, only the last exit-flagged) is built
\* iff every suspect's total over the snapshots is below 12; otherwise the
\* 4-slide success prefix is built, ending on the accusation slide, with no
\* slide exit-flagged.
C6_WinLossGate ==
    [][(ending_builds' # ending_builds) =>
        IF \A c \in SuspectIds : Total(snapshots, c) < EVIDENCE_POINTS_REQUIRED
        THEN /\ Len(ending_slides') = 3
             /\ ending_slides'[1].image = "red_cryst.png"
             /\ ending_slides'[2].image = "dead_king.png"
             /\ ending_slides'[3].image = EscapeImage(culprit)
             /\ ending_slides'[3].script = EscapeScriptI(culprit)
             /\ OnlyLastExits(ending_slides', 1, 3)
             /\ \A k \in 1..3 : ~ending_slides'[k].accept_123
        ELSE /\ Len(ending_slides') = 4
             /\ \A k \in 1..4 : ~ending_slides'[k].exit_prompt
             /\ \A k \in 1..4 : ending_slides'[k].accept_123 <=> (k = 4)
             /\ ending_slides'[4].image = "the_culprits.png"]_vars

C6_Witness ==
    /\ state = "ending"
    /\ Len(ending_slides) = 4
    /\ ending_index = 0
    /\ Total(snapshots, culprit) >= EVIDENCE_POINTS_REQUIRED

\* the suspect the keys 1, 2, 3 stand for
ChoiceSuspect(choice) ==
    CASE choice = 1 -> "goblin"
      [] choice = 2 -> "chef"
      [] choice = 3 -> "queen"
      [] OTHER -> ""

\* C7: the outcome exists exactly once the spell-cast slide (the 7th) has
\* faded out; it is the 4-slide good ending iff the accused suspect is the
\* culprit, otherwise the 3-slide false judgement whose last slide carries the
\* real culprit's escape text; only the last slide of either is exit-flagged.
C7_OutcomeMatchesAccusation ==
    (state = "ending" /\ ending_player_choice # 0) =>
        /\ Len(ending_slides) > 7 <=> ending_index >= 7
        /\ Len(ending_slides) > 7 =>
            IF ChoiceSuspect(ending_player_choice) = culprit
            THEN /\ Len(ending_slides) = 11
                 /\ ending_slides[8].script = "GOOD_ENDING_GREEN_CRYSTAL"
                 /\ ending_slides[9].script = "GOOD_ENDING_DEAD_KING"
                 /\ ending_slides[10].script = "GOOD_ENDING_GE1_REJOICING"
                 /\ ending_slides[11].script = "GOOD_ENDING_GE2_CORONATION"
                 /\ OnlyLastExits(ending_slides, 1, 11)
            ELSE /\ Len(ending_slides) = 10
                 /\ ending_slides[8].script = "BAD_ENDING_II_RED_CRYSTAL"
                 /\ ending_slides[9].script = "BAD_ENDING_II_DEAD_KING"
                 /\ ending_slides[10].script = EscapeScriptII(culprit)
                 /\ ending_slides[10].image = EscapeImage(culprit)
                 /\ OnlyLastExits(ending_slides, 1, 10)

C7_Witness ==
    /\ state = "ending"
    /\ culprit = "goblin"
    /\ ending_player_choice = 2
    /\ Len(ending_slides) = 10
    /\ ending_index = 9

OnAccusation ==
    /\ state = "ending"
    /\ ending_index < Len(ending_slides)
    /\ ending_slides[ending_index + 1].accept_123

ChoiceKey(choice) ==
    CASE choice = 1 -> "1" [] choice = 2 -> "2" [] choice = 3 -> "3"

PleaScript(choice) ==
    CASE choice = 1 -> "WIN_PATH_G5_GOBLIN_PLEADS"
      [] choice = 2 -> "WIN_PATH_G5_CHEF_PLEADS"
      [] choice = 3 -> "WIN_PATH_G5_QUEEN_PLEADS"

\* C8: on the accusation slide the keys 1, 2, 3 record the choice, append
\* exactly the plea of the chosen suspect, blood taken and spell cast, and
\* move to the plea; no other step leaves the accusation slide or changes the
\* slides; once a choice is recorded it is never made again.
C8_AccusationChoice ==
    [][/\ \A k \in 1..3 :
            (OnAccusation /\ KeyDown(ChoiceKey(k))) =>
                /\ ending_player_choice' = k
                /\ Len(ending_slides') = Len(ending_slides) + 3
                /\ SubSeq(ending_slides', 1, Len(ending_slides)) = ending_slides
                /\ ending_slides'[Len(ending_slides) + 1].script = PleaScript(k)
                /\ ending_slides'[Len(ending_slides) + 2].script
                      = "WIN_PATH_G6_BLOOD_TAKEN"
                /\ ending_slides'[Len(ending_slides) + 3].script
                      = "WIN_PATH_G7_HANDS_TO_MAGE"
                /\ ending_index' = ending_index + 1
                /\ ending_slides'[ending_index' + 1].script = PleaScript(k)
       /\ (OnAccusation /\ \A k \in 1..3 : ~KeyDown(ChoiceKey(k))) =>
                /\ ending_index' = ending_index
                /\ ending_slides' = ending_slides
                /\ ending_player_choice' = ending_player_choice
       /\ (state = "ending" /\ ending_player_choice # 0) =>
                /\ ~OnAccusation
                /\ ending_player_choice' = ending_player_choice]_vars

C8_Witness ==
    /\ state = "ending"
    /\ ending_player_choice = 2
    /\ ending_index = 4
    /\ Len(ending_slides) = 7

\* the success prefix is the current script: its 4th slide is the accusation
SuccessBranch ==
    /\ state = "ending"
    /\ Len(ending_slides) >= 4
    /\ ending_slides[4].accept_123

\* C9: the evidence total of every suspect other than the culprit stays below
\* 12 over every ledger of whole-scene and single-artifact captures and
\* undos, so the success branch is only ever built with the culprit's own
\* total at 12 or more.
C9_OnlyCulpritReachesThreshold ==
    /\ \A c \in SuspectIds \ {culprit} :
          Total(snapshots, c) < EVIDENCE_POINTS_REQUIRED
    /\ SuccessBranch => Total(snapshots, culprit) >= EVIDENCE_POINTS_REQUIRED

C9_Witness ==
    /\ SuccessBranch
    /\ \E c \in SuspectIds \ {culprit} : Total(snapshots, c) > 0

\* C10: whoever the culprit is, some run of at most 3 captures gives the
\* culprit a total of 12 or more: the scenes built for the run hold, for some
\* choice of MAX_SNAPSHOTS whole-scene captures, at least 12 points of the
\* culprit, so the success branch and the good ending stay reachable.
C10_CulpritCanReachThreshold ==
    \E pick \in [1..MAX_SNAPSHOTS -> AllClocks] :
        Total([j \in 1..MAX_SNAPSHOTS |->
                  Snapshot(scenes[pick[j]].label,
                           ScenePoints(scenes[pick[j]].artifacts, "queen"),
                           ScenePoints(scenes[pick[j]].artifacts, "chef"),
                           ScenePoints(scenes[pick[j]].artifacts, "goblin"),
                           None)],
              culprit) >= EVIDENCE_POINTS_REQUIRED

C10_Witness ==
    /\ state = "ending"
    /\ culprit = "chef"
    /\ Len(snapshots) <= MAX_SNAPSHOTS
    /\ Total(snapshots, "chef") >= EVIDENCE_POINTS_REQUIRED
    /\ ChoiceSuspect(ending_player_choice) = "chef"
    /\ Len(ending_slides) = 11
    /\ ending_index = 10

\* ------------------------------------------------------------------------
\* The artifact catalogue before replacement
\* ------------------------------------------------------------------------
\* the points the file name of an artifact gives to a suspect
ParsedPoints(filename, suspect_id) ==
    LET parsed == ParseArtifactSuspectAndPoints(filename)
    IN  IF parsed[1] = suspect_id THEN parsed[2] ELSE 0

\* the suspect's points over the 3 artifacts of scene i, before replacement
PreReplacementSum(i, suspect_id) ==
    ParsedPoints(artifact_specs[i][1], suspect_id)
    + ParsedPoints(artifact_specs[i][2], suspect_id)
    + ParsedPoints(artifact_specs[i][3], suspect_id)

\* the suspect owns a 5- or 10-point artifact of scene i
OwnsIncriminating(i, suspect_id) ==
    \E k \in 1..3 : ParsedPoints(artifact_specs[i][k], suspect_id) \in {5, 10}

\* C11 as stated: every scene in which the culprit owns a 5- or 10-point
\* artifact gives the culprit at least 12 points over its 3 pre-replacement
\* artifacts.
C11_SceneSumReachesThreshold ==
    \A i \in AllClocks :
        OwnsIncriminating(i, culprit)
            => PreReplacementSum(i, culprit) >= EVIDENCE_POINTS_REQUIRED

\* the suspect's pre-replacement points over the scenes of a set
SumOverScenes(S, suspect_id) ==
    LET part(i) == IF i \in S THEN PreReplacementSum(i, suspect_id) ELSE 0
    IN  part(0) + part(1) + part(2) + part(3) + part(4) + part(5)

\* C11 amended: every scene in which the culprit owns a 5- or 10-point
\* artifact gives the culprit at least 5 and at most 10 points over its 3
\* pre-replacement artifacts (one scene never reaches 12), and some
\* MAX_SNAPSHOTS or fewer of these scenes together give at least 12.
C11_SceneSumsReachThresholdTogether ==
    /\ \A i \in AllClocks :
          OwnsIncriminating(i, culprit)
              => /\ PreReplacementSum(i, culprit) >= 5
                 /\ PreReplacementSum(i, culprit) <= 10
    /\ \E S \in SUBSET AllClocks :
          /\ Cardinality(S) <= MAX_SNAPSHOTS
          /\ \A i \in S : OwnsIncriminating(i, culprit)
          /\ SumOverScenes(S, culprit) >= EVIDENCE_POINTS_REQUIRED

\* the scene 18:22, where the chef owns a 5-point artifact only, was
\* captured with the chef as culprit
C11_Witness ==
    /\ culprit = "chef"
    /\ OwnsIncriminating(4, "chef")
    /\ PreReplacementSum(4, "chef") = 5
    /\ Len(snapshots) = 1
    /\ snapshots[1].scene_label = "18:22"
    /\ snapshots[1].points_chef = 5

\* the artifact of scene i built from the k-th spec is a decoy: another file,
\* without suspect and without points
IsDecoyOf(art, orig_filename) ==
    /\ art.spec_filename # orig_filename
    /\ ParseArtifactSuspectAndPoints(art.spec_filename) = <<"", 0>>
    /\ art.suspect_id = ""
    /\ art.points = 0

\* the artifact is the original, with the suspect and points of its name
IsOriginal(art, orig_filename) ==
    /\ art.spec_filename = orig_filename
    /\ art.suspect_id = ParseArtifactSuspectAndPoints(orig_filename)[1]
    /\ art.points = ParseArtifactSuspectAndPoints(orig_filename)[2]

\* C12: an artifact is replaced by its 0-point, suspect-less decoy exactly
\* when its suspect is not the culprit and its points are 5 or 10; the
\* culprit's artifacts and those worth fewer than 5 points are kept; the
\* decoy table has an entry for every 5- or 10-point artifact, so no
\* non-culprit artifact worth 5 or 10 is left in a scene.
C12_ReplacementRule ==
    /\ \A i \in AllClocks :
          /\ Len(scenes[i].artifacts) = 3
          /\ \A k \in 1..3 :
                LET orig == artifact_specs[i][k]
                    parsed == ParseArtifactSuspectAndPoints(orig)
                    art == scenes[i].artifacts[k]
                IN  /\ (parsed[2] \in {5, 10})
                        => <<i, orig>> \in DOMAIN REPLACEMENT_MAP
                    /\ IF parsed[1] # culprit /\ parsed[2] \in {5, 10}
                       THEN IsDecoyOf(art, orig)
                       ELSE IsOriginal(art, orig)
                    /\ ~(art.suspect_id # culprit /\ art.points \in {5, 10})

\* a scene in play holding a decoy, the culprit's 10-point artifact and a
\* kept 1-point artifact of another suspect
C12_Witness ==
    /\ state = "scene"
    /\ culprit = "queen"
    /\ current_scene_index = 4
    /\ IsOriginal(scenes[4].artifacts[1], "q10-1.png")
    /\ IsDecoyOf(scenes[4].artifacts[2], "c5-2.png")
    /\ IsOriginal(scenes[0].artifacts[3], "g1-1.png")

\* the script of the current opening slide
OpeningScriptNow ==
    IF opening_slide_index < Len(OPENING_SCRIPT)
    THEN OPENING_SCRIPT[opening_slide_index + 1] ELSE << >>

\* the current ending slide and its script
EndingSlideNow == ending_slides[ending_index + 1]

EndingScriptNow == ScriptOf(EndingSlideNow.script)

\* the opening holds a slide whose current box is only partly revealed
PartlyRevealedOpening ==
    /\ state = "opening"
    /\ opening_phase = "holding"
    /\ opening_text_index < Len(OpeningScriptNow)
    /\ opening_char_index < OpeningScriptNow[opening_text_index + 1]

\* the ending holds a slide, not the accusation slide, whose current box is
\* only partly revealed
PartlyRevealedEnding ==
    /\ state = "ending"
    /\ ending_index < Len(ending_slides)
    /\ ~EndingSlideNow.accept_123
    /\ ending_phase = "holding"
    /\ ending_text_index < Len(EndingScriptNow)
    /\ ending_char_index < EndingScriptNow[ending_text_index + 1]

\* C13 as stated: RIGHT on a partly revealed box sets the revealed count to
\* the full length and leaves the box index and the phase unchanged.
C13_ContinueOnlyReveals ==
    [][/\ (PartlyRevealedOpening /\ KeyDown("RIGHT"))
            => /\ opening_char_index'
                    = OpeningScriptNow[opening_text_index + 1]
               /\ opening_text_index' = opening_text_index
               /\ opening_phase' = opening_phase
       /\ (PartlyRevealedEnding /\ KeyDown("RIGHT"))
            => /\ ending_char_index'
                    = EndingScriptNow[ending_text_index + 1]
               /\ ending_text_index' = ending_text_index
               /\ ending_phase' = ending_phase]_vars

\* C13 amended: RIGHT on a partly revealed box (of a holding slide other than
\* the accusation slide) completes the box and advances in the same press:
\* to the next box with nothing revealed, or, on the last box, to fade_out
\* (on an exit-flagged ending slide, to the end of the script instead).
C13_ContinueRevealsAndAdvances ==
    [][/\ (PartlyRevealedOpening /\ KeyDown("RIGHT"))
            => IF opening_text_index + 1 < Len(OpeningScriptNow)
               THEN /\ opening_text_index' = opening_text_index + 1
                    /\ opening_char_index' = 0
                    /\ opening_phase' = "holding"
               ELSE /\ opening_text_index' = opening_text_index
                    /\ opening_char_index'
                          = OpeningScriptNow[opening_text_index + 1]
                    /\ opening_phase' = "fade_out"
       /\ (PartlyRevealedEnding /\ KeyDown("RIGHT"))
            => IF ending_text_index + 1 < Len(EndingScriptNow)
               THEN /\ ending_text_index' = ending_text_index + 1
                    /\ ending_char_index' = 0
                    /\ ending_phase' = "holding"
               ELSE IF EndingSlideNow.exit_prompt
               THEN /\ ending_text_index' = Len(EndingScriptNow)
                    /\ ending_char_index'
                          = EndingScriptNow[ending_text_index + 1]
                    /\ ending_phase' = "holding"
               ELSE /\ ending_text_index' = ending_text_index
                    /\ ending_char_index'
                          = EndingScriptNow[ending_text_index + 1]
                    /\ ending_phase' = "fade_out"]_vars

\* the second box of the first opening slide, reached after one typing step
\* (19 of the 78 characters of the first box) and one press of RIGHT
C13_Witness ==
    /\ state = "opening"
    /\ opening_slide_index = 0
    /\ opening_phase = "holding"
    /\ opening_text_index = 1
    /\ opening_char_index = 0
    /\ opening_timer = 500

\* the game g with the artifact popup closed
PopupClosed(g) ==
    [g EXCEPT !.state = "scene",
              !.popup_artifact_filename = "",
              !.popup_scene_index = -1]

\* C14: in artifact_popup, Escape closes the popup and returns the state to
\* scene, as the X button, the Close button and a click outside the box do.
C14_EscapeClosesPopup ==
    state = "artifact_popup"
        => /\ HandleKeyDown(Self, "ESCAPE") = PopupClosed(Self)
           /\ \A region \in {"x_btn", "close_btn", "outside"} :
                 HandleMouseDown(Self, <<region, 0>>) = PopupClosed(Self)

\* C15: Escape moves opening to menu; moves scene to menu, clearing the
\* active scene and stopping the ominous loop; requests program exit from
\* menu; and changes nothing in ending.
C15_EscapeSemantics ==
    LET after == HandleKeyDown(Self, "ESCAPE")
    IN  /\ state = "opening" => after = [Self EXCEPT !.state = "menu"]
        /\ state = "scene"
              => after = [Self EXCEPT !.state = "menu",
                                      !.current_scene_index = -1,
                                      !.ominous_playing = FALSE,
                                      !.ominous_channels = 0]
        /\ state = "menu" => after = [Self EXCEPT !.running = FALSE]
        /\ state = "ending" => after = Self

\* the ending shows an exit-flagged slide whose script is fully advanced
ExitReady ==
    /\ state = "ending"
    /\ ending_index < Len(ending_slides)
    /\ EndingSlideNow.exit_prompt
    /\ (EndingScriptNow = << >> \/ ending_text_index >= Len(EndingScriptNow))

\* the run ends: running is cleared, or an exception left run
Ends(g) == ~g.running \/ g.exited

\* C16: a key press or a click ends the run only as Escape in menu or as a
\* key or click in ending on an exit-flagged slide whose script is fully
\* advanced; no key or click in opening, scene, artifact_popup or
\* snapshot_effect, none on another ending slide, and no update step, ends it.
C16_TerminationOnlyByExit ==
    (running /\ ~exited) =>
        /\ \A key \in AllKeys :
              Ends(HandleKeyDown(Self, key))
                  => \/ state = "menu" /\ key = "ESCAPE"
                     \/ ExitReady
        /\ \A click \in ClickTargets(Self, AllClocks, 0..2) :
              Ends(HandleMouseDown(Self, click)) => ExitReady
        /\ \A dt \in TickDts : ~Ends(Update(Self, dt))

\* the scripts of the slides of the list
ScriptsShown == {ending_slides[k].script : k \in 1..Len(ending_slides)}

GoodEndingScripts ==
    {"GOOD_ENDING_GREEN_CRYSTAL", "GOOD_ENDING_DEAD_KING",
     "GOOD_ENDING_GE1_REJOICING", "GOOD_ENDING_GE2_CORONATION"}

FalseJudgementScripts ==
    {"BAD_ENDING_II_RED_CRYSTAL", "BAD_ENDING_II_DEAD_KING",
     "BAD_ENDING_II_QUEEN_FREE", "BAD_ENDING_II_CHEF_FREE",
     "BAD_ENDING_II_GOBLIN_FREE"}

FailureScripts ==
    {"BAD_ENDING_RED_CRYSTAL", "BAD_ENDING_DEAD_KING",
     "BAD_ENDING_QUEEN_FREE", "BAD_ENDING_CHEF_FREE",
     "BAD_ENDING_GOBLIN_FREE"}

\* one branch only is in the list, and no slide exists before its time
OneBranch ==
    /\ state # "ending" => ending_slides = << >>
    /\ state = "ending" =>
        /\ Len(ending_slides) \in {3, 4, 7, 10, 11}
        /\ Len(ending_slides) = 3 <=> ScriptsShown \subseteq FailureScripts
        /\ Len(ending_slides) >= 4 => ScriptsShown \cap FailureScripts = {}
        /\ Len(ending_slides) > 4
              <=> (ending_player_choice \in 1..3 /\ ending_index >= 4)
        /\ Len(ending_slides) <= 4 => ending_player_choice = 0
        /\ Len(ending_slides) > 7 => ending_index >= 7
        /\ Len(ending_slides) <= 7 =>
              ScriptsShown \cap (GoodEndingScripts \cup FalseJudgementScripts)
                  = {}
        /\ Len(ending_slides) = 10 =>
              /\ ScriptsShown \cap GoodEndingScripts = {}
              /\ \A k \in 8..10 :
                    ending_slides[k].script \in FalseJudgementScripts
        /\ Len(ending_slides) = 11 =>
              /\ ScriptsShown \cap FalseJudgementScripts = {}
              /\ \A k \in 8..11 :
                    ending_slides[k].script \in GoodEndingScripts

\* the list is built once and grows 4 -> 7 -> 10 or 11, never otherwise
GrowsLazily ==
    ending_slides' # ending_slides =>
        /\ <<Len(ending_slides), Len(ending_slides')>>
              \in {<<0, 3>>, <<0, 4>>, <<4, 7>>, <<7, 10>>, <<7, 11>>}
        /\ SubSeq(ending_slides', 1, Len(ending_slides)) = ending_slides

\* C17: exactly one branch of the ending is realized per run: the list is
\* the 3 failure slides or grows 4 -> 7 -> 10 or 11; the slides after the
\* accusation slide do not exist before the choice, the outcome slides do not
\* exist before the spell-cast slide has finished, the outcome is appended
\* once, and good-ending and false-judgement slides never occur together.
C17_OneBranchAppendedLazily ==
    []OneBranch /\ [][GrowsLazily]_vars

\* the good ending reached after the accusation of the queen
C17_Witness ==
    /\ state = "ending"
    /\ culprit = "queen"
    /\ ending_player_choice = 3
    /\ Len(ending_slides) = 11
    /\ ending_index = 10
    /\ ending_phase = "holding"

\* C18: for any culprit, when the countdown reaches zero with no snapshot
\* ever captured, the ending is built on the failure branch and its last
\* slide carries that culprit's escape text and image (chef: the chef-free
\* text and chef_be.png).
C18_EmptyLedgerExpiryFails ==
    (global_time = 0 /\ snapshots = << >>) =>
        /\ state = "ending"
        /\ Len(ending_slides) = 3
        /\ ending_slides[1].script = "BAD_ENDING_RED_CRYSTAL"
        /\ ending_slides[2].script = "BAD_ENDING_DEAD_KING"
        /\ ending_slides[3].script = EscapeScriptI(culprit)
        /\ ending_slides[3].image = EscapeImage(culprit)
        /\ ending_slides[3].exit_prompt
        /\ culprit = "chef" =>
              /\ ending_slides[3].script = "BAD_ENDING_CHEF_FREE"
              /\ ending_slides[3].image = "chef_be.png"

\* the chef's escape slide after an expiry with an empty ledger
C18_Witness ==
    /\ state = "ending"
    /\ culprit = "chef"
    /\ global_time = 0
    /\ snapshots = << >>
    /\ ending_slides[3].script = "BAD_ENDING_CHEF_FREE"

\* the ledger is [A(scene i, X), B(scene i, Y), C(another scene, none)] with
\* Y the k-th artifact of scene i and X another artifact
UndoExample(i, k) ==
    /\ state = "menu"
    /\ Len(snapshots) = 3
    /\ k < Len(scenes[i].artifacts)
    /\ snapshots[1].scene_label = scenes[i].label
    /\ snapshots[1].trigger_artifact_filename
          \notin {None, scenes[i].artifacts[k + 1].spec_filename}
    /\ snapshots[2].scene_label = scenes[i].label
    /\ snapshots[2].trigger_artifact_filename
          = scenes[i].artifacts[k + 1].spec_filename
    /\ snapshots[3].scene_label # scenes[i].label
    /\ snapshots[3].trigger_artifact_filename = None

\* C19: a successful undo removes exactly one snapshot and leaves the others
\* in their original order; from [A(scene1, X), B(scene1, Y), C(scene2, none)]
\* the undo in the popup of artifact Y of scene1 yields [A, C].
C19_UndoRemovesOneKeepsOrder ==
    [][/\ Len(snapshots') < Len(snapshots)
            => \E j \in 1..Len(snapshots) :
                  snapshots' = SubSeq(snapshots, 1, j - 1)
                                  \o SubSeq(snapshots, j + 1, Len(snapshots))
       /\ \A i \in AllClocks, k \in 0..2 :
             (UndoExample(i, k) /\ ArtifactUndo(i, k))
                => snapshots' = <<snapshots[1], snapshots[3]>>]_vars

\* the example ledger with the queen as culprit: A triggered by q10-1.png and
\* B by the decoy r9.png in 18:22, C a whole capture of 14:40; the undo in the
\* popup of r9.png leaves [A, C]
C19_Witness ==
    /\ culprit = "queen"
    /\ UndoExample(4, 1)
    /\ snapshots[1].trigger_artifact_filename = "q10-1.png"
    /\ snapshots[2].trigger_artifact_filename = "r9.png"
    /\ snapshots[3].scene_label = "14:40"
    /\ PopupRound(Self, 4, 1, "uncryst_btn").snapshots
          = <<snapshots[1], snapshots[3]>>

\* no snapshot of the popup's scene was triggered by the open artifact or is
\* a whole-scene capture
NothingToUndoHere ==
    \A k \in 1..Len(snapshots) :
        snapshots[k].scene_label = scenes[popup_scene_index].label
            => snapshots[k].trigger_artifact_filename
                  \notin {None, popup_artifact_filename}

\* C20: clicking Uncrystallize when no snapshot of the popup's scene has a
\* trigger equal to the open artifact or an empty trigger changes nothing:
\* the ledger is unchanged and the popup stays open.
C20_UndoWithoutMatchIsNoOp ==
    (state = "artifact_popup" /\ NothingToUndoHere)
        => HandleMouseDown(Self, <<"uncryst_btn", 0>>) = Self

\* the popup of one artifact is open while the only snapshot of the scene was
\* triggered by another artifact
C20_Witness ==
    /\ state = "artifact_popup"
    /\ ~exited
    /\ popup_scene_index = 4
    /\ Len(snapshots) = 1
    /\ snapshots[1].scene_label = scenes[4].label
    /\ snapshots[1].trigger_artifact_filename # None
    /\ snapshots[1].trigger_artifact_filename # popup_artifact_filename
    /\ NothingToUndoHere
    /\ HandleMouseDown(Self, <<"uncryst_btn", 0>>).snapshots = snapshots
    /\ HandleMouseDown(Self, <<"uncryst_btn", 0>>).state = "artifact_popup"

\* every click the handlers tell apart, in any state
AllClicks ==
    {<<region, i>> :
        region \in {"accuse", "clock", "artifact", "thumb", "nothing", "x_btn",
                    "cryst_btn", "uncryst_btn", "close_btn", "inside",
                    "outside"},
        i \in 0..5}

\* no key and no click changes anything during the snapshot effect
EffectIgnoresInput ==
    state = "snapshot_effect" =>
        /\ \A key \in AllKeys : HandleKeyDown(Self, key) = Self
        /\ \A click \in AllClicks : HandleMouseDown(Self, click) = Self

\* a capture enters the effect; the effect ends once more than 0.4 s elapsed
EffectSteps ==
    /\ Len(snapshots') > Len(snapshots)
          => (state' = "snapshot_effect" /\ snapshot_effect_time' = 0)
    /\ \A dt \in EffectDts \cup TickDts :
          (state = "snapshot_effect" /\ Tick(dt)) =>
              IF snapshot_effect_time + dt > SNAPSHOT_EFFECT_DURATION
              THEN state' = "menu" /\ current_scene_index' = -1
              ELSE state' = "snapshot_effect"
                      /\ current_scene_index' = current_scene_index

\* C21: every successful capture (whole scene or from the popup) puts the
\* game in snapshot_effect; in snapshot_effect no key or click changes
\* anything; once more than 0.4 s have elapsed the state becomes menu with the
\* active scene cleared.
C21_SnapshotEffect ==
    []EffectIgnoresInput /\ [][EffectSteps]_vars

\* back in menu after a capture from the popup and three update steps of
\* 0.2 s (0.4 s is not yet more than 0.4 s)
C21_Witness ==
    /\ state = "menu"
    /\ current_scene_index = -1
    /\ snapshot_effect_time = 600
    /\ Len(snapshots) = 1
    /\ snapshots[1].trigger_artifact_filename # None

\* C22: every one of the 6 scenes holds exactly 3 artifacts after
\* construction, for every culprit, also when an artifact image fails to
\* decode (a placeholder stands in for it).
C22_ThreeArtifactsPerScene ==
    \A i \in AllClocks : Len(scenes[i].artifacts) = 3

\* the script state of the opening is zero after the step
OpeningScriptReset ==
    /\ opening_text_index' = 0
    /\ opening_char_index' = 0
    /\ opening_typing_accumulator' = 0

\* the script state of the ending is zero after the step
EndingScriptReset ==
    /\ ending_text_index' = 0
    /\ ending_char_index' = 0
    /\ ending_typing_accumulator' = 0

\* C23 as stated: whenever the current slide changes, in the opening or in
\* the ending, the box index, the revealed count and the accumulator are all
\* zero at that moment.
C23_SlideChangeResets ==
    [][/\ (state' = "opening" /\ opening_slide_index' # opening_slide_index)
            => OpeningScriptReset
       /\ (state' = "ending"
            /\ (state # "ending" \/ ending_index' # ending_index))
            => EndingScriptReset]_vars

\* the opening shows text of the current slide only: a box of its script,
\* revealed up to its length at most
OpeningTextIsCurrent ==
    (state = "opening" /\ opening_phase = "holding") =>
        /\ opening_text_index < Len(OpeningScriptNow)
        /\ opening_char_index <= OpeningScriptNow[opening_text_index + 1]

\* C23 amended: whenever the current slide of the ending changes (the jump
\* of the accusation choice included) the box index, the revealed count and
\* the accumulator are all zero at that moment; in the opening they keep the
\* values of the previous slide through fade_in, where no text is drawn, and
\* are all zero when holding, the only phase that draws text, begins.
C23_ScriptStateResetBeforeShown ==
    /\ []OpeningTextIsCurrent
    /\ [][/\ (state' = "opening" /\ opening_phase # "holding"
                /\ opening_phase' = "holding")
               => OpeningScriptReset
          /\ (state' = "ending"
                /\ (state # "ending" \/ ending_index' # ending_index))
               => EndingScriptReset]_vars

\* the second slide of the ending fading in with its script state at zero,
\* after the first slide was read to its last box
C23_Witness ==
    /\ state = "ending"
    /\ ending_index = 1
    /\ ending_phase = "fade_in"
    /\ ending_timer = 0
    /\ ending_text_index = 0
    /\ ending_char_index = 0
    /\ opening_text_index = 3

\* ---- C24 ----
\* the length of the box being typed in the opening
OpeningBox == OPENING_SCRIPT[opening_slide_index + 1][opening_text_index + 1]

RevealBounded == opening_char_index <= OpeningBox

RevealKept == opening_char_index' >= opening_char_index

AccumulatorCleared ==
    opening_char_index = OpeningBox
        => opening_typing_accumulator = FLOAT_ZERO

RevealedBy(frames) ==
    opening_timer >= frames => opening_char_index = OpeningBox

\* C24 as stated: during holding at frames of 1/60 s and 38 characters per
\* second the revealed count of a box of length L never exceeds L, never
\* decreases and equals L after ceil(L/38) seconds; once it equals L the
\* accumulator is zero
C24_RevealedAfterCeil ==
    /\ [](RevealBounded /\ AccumulatorCleared
            /\ RevealedBy(FramesToReveal(OpeningBox)))
    /\ [][RevealKept]_vars

\* C24 amended: the revealed count never exceeds L, never decreases and
\* equals L one frame after ceil(L/38) seconds at the latest (the float sum
\* of the frame increments can stay just below a whole character at exactly
\* ceil(L/38) seconds); once it equals L the accumulator is zero
C24_RevealedOneFrameLater ==
    /\ [](RevealBounded /\ AccumulatorCleared
            /\ RevealedBy(FramesToReveal(OpeningBox) + 1))
    /\ [][RevealKept]_vars

\* the box of 38 characters is complete at frame 61, with nothing carried
C24_Witness ==
    /\ state = "opening"
    /\ opening_phase = "holding"
    /\ OpeningBox = 38
    /\ opening_timer = 61
    /\ opening_char_index = 38
    /\ opening_typing_accumulator = FLOAT_ZERO

\* the same box one frame earlier: 37 characters and an accumulator just
\* below 1.0
LateBox ==
    /\ OpeningBox = 38
    /\ opening_timer = 60
    /\ opening_char_index = 37
    /\ opening_typing_accumulator = <<67108863, 134217712>>

\* ---- C25 ----
FadeInRange ==
    \A i \in AllClocks :
        /\ scene_fade_progress[i] >= 0
        /\ scene_fade_progress[i] <= SCENE_FADE_DURATION

\* an update step in a scene that does not end the countdown advances the
\* fade of that scene, up to its end
FadeAdvances ==
    (state = "scene" /\ ~exited) =>
        \A dt \in FadeDts :
          global_time > dt =>
            Update(Self, dt).scene_fade_progress[current_scene_index]
                = Min(SCENE_FADE_DURATION,
                      scene_fade_progress[current_scene_index] + dt)

\* the fade of a scene never goes back, and moves only in an update step made
\* in state scene with that scene active
FadeSteps ==
    \A i \in AllClocks :
        /\ scene_fade_progress'[i] >= scene_fade_progress[i]
        /\ scene_fade_progress'[i] # scene_fade_progress[i]
              => /\ state = "scene"
                 /\ current_scene_index = i
                 /\ \E dt \in FadeDts : Tick(dt)

\* C25: the fade progress of every scene stays within [0, 1], never decreases
\* and is never reset; an update step changes it for the active scene only,
\* in state scene only, and leaves every other scene's progress as it was
C25_FadeProgress == [](FadeInRange /\ FadeAdvances) /\ [][FadeSteps]_vars

\* back in the scene 18:22 with its fade complete while the scene 14:41 keeps
\* the seven seconds of its one visit
C25_Witness ==
    /\ state = "scene"
    /\ current_scene_index = 4
    /\ scene_fade_progress[4] = SCENE_FADE_DURATION
    /\ scene_fade_progress[3] = 7000
    /\ global_time = GLOBAL_TIME_LIMIT - 21000

\* ---- C26 ----
\* play is called on the ominous loop only when ominous_playing is unset, and
\* stop only when it is set
OminousCalls ==
    /\ ominous_channels' > ominous_channels => ~ominous_playing
    /\ ominous_channels' < ominous_channels => ominous_playing

\* an update step in a scene with the loop playing and time left below 25 s
\* starts nothing; Escape, the expiry and an update step with the loop not
\* playing stop nothing
OminousIdempotent ==
    /\ (state = "scene" /\ ominous_playing /\ ~exited) =>
          \A dt \in FadeDts :
              global_time > dt =>
                  /\ Update(Self, dt).ominous_channels = ominous_channels
                  /\ Update(Self, dt).ominous_playing
    /\ ~ominous_playing =>
          /\ HandleKeyDown(Self, "ESCAPE").ominous_channels = ominous_channels
          /\ \A dt \in FadeDts :
                 Update(Self, dt).ominous_channels >= ominous_channels

\* C26: at most one instance of the ominous loop plays in every reachable
\* state; a start is issued only when the loop is not playing and a stop only
\* when it is, so a start while playing and a stop while not playing change
\* nothing
C26_OneOminousLoop ==
    /\ [](ominous_channels <= 1 /\ OminousIdempotent)
    /\ [][OminousCalls]_vars

\* the third update step in a row made in a scene below 25 seconds: the loop
\* started once and plays once
C26_Witness ==
    /\ state = "scene"
    /\ global_time = 8000
    /\ scene_fade_progress[4] = SCENE_FADE_DURATION
    /\ ominous_playing
    /\ ominous_channels = 1

\* ---- C27 ----
\* the game object of the run without audio: self.sounds is empty, so the
\* ominous loop is never started
Mute(g) ==
    [g EXCEPT !.sounds = FALSE,
              !.ominous_playing = FALSE,
              !.ominous_channels = 0]

\* C27: a run with audio and a run with the audio layer inert, given the same
\* culprit, events and tick times, go through the same states, countdown,
\* ledger, fade progress and ending slides. The two runs start as Self and
\* Mute(Self); they stay so related if every event and every update step
\* takes a game object and its muted twin to a game object and its muted
\* twin, all fields but the audio ones being equal.
C27_AudioInert ==
    ~exited =>
        /\ \A key \in AllKeys :
              Mute(HandleKeyDown(Self, key)) = HandleKeyDown(Mute(Self), key)
        /\ \A click \in ClickTargets(Self, AllClocks, 0..2) :
              Mute(HandleMouseDown(Self, click))
                  = HandleMouseDown(Mute(Self), click)
        /\ \A dt \in FadeDts :
              Mute(Update(Self, dt)) = Update(Mute(Self), dt)

\* ---- C28 ----
\* the points of an artifact that count for a suspect
Credit(art, suspect_id) ==
    IF art.suspect_id = suspect_id THEN art.points ELSE 0

\* the snapshot a single-artifact capture is to record
ArtifactRecord(scene, art) ==
    [scene_label |-> scene.label,
     points_queen |-> Credit(art, "queen"),
     points_chef |-> Credit(art, "chef"),
     points_goblin |-> Credit(art, "goblin"),
     trigger_artifact_filename |-> art.spec_filename]

\* the snapshot a whole-scene capture is to record
SceneRecord(scene) ==
    LET arts == scene.artifacts
        Share(suspect_id) ==
            Credit(arts[1], suspect_id) + Credit(arts[2], suspect_id)
                + Credit(arts[3], suspect_id)
    IN  [scene_label |-> scene.label,
         points_queen |-> Share("queen"),
         points_chef |-> Share("chef"),
         points_goblin |-> Share("goblin"),
         trigger_artifact_filename |-> None]

\* C28: Crystallize in the popup records the points of the open artifact
\* only, credited to its suspect with the two others at 0, and the artifact
\* as trigger; the S key records for each suspect the sum of that suspect's
\* points over all artifacts of the active scene, and no trigger.
C28_CaptureScope ==
    (state = "menu" /\ ~exited /\ Len(snapshots) < MAX_SNAPSHOTS) =>
        \A i \in AllClocks :
            /\ LeaveToMenu(HandleKeyDown(
                   HandleMouseDown(Self, <<"clock", i>>), "s")).snapshots
                  = Append(snapshots, SceneRecord(scenes[i]))
            /\ \A k \in 0..2 :
                  PopupRound(Self, i, k, "cryst_btn").snapshots
                      = Append(snapshots,
                            ArtifactRecord(scenes[i],
                                           scenes[i].artifacts[k + 1]))

\* the ledger holds a capture of one artifact of a scene, then a capture of
\* the whole of that scene, in which two suspects have points
C28_Witness ==
    /\ state = "menu"
    /\ Len(snapshots) = 2
    /\ \E i \in AllClocks :
          /\ snapshots[1] = ArtifactRecord(scenes[i], scenes[i].artifacts[1])
          /\ snapshots[2] = SceneRecord(scenes[i])
          /\ Cardinality({s \in SuspectIds : PointsOf(snapshots[1], s) > 0}) = 1
          /\ Cardinality({s \in SuspectIds : PointsOf(snapshots[2], s) > 0}) >= 2

\* ---- C29 ----
\* the opening holds a slide whose current box is fully revealed
FullyRevealedOpening ==
    /\ state = "opening"
    /\ opening_phase = "holding"
    /\ opening_text_index < Len(OpeningScriptNow)
    /\ opening_char_index >= OpeningScriptNow[opening_text_index + 1]

\* the ending holds a slide, not the accusation slide, whose current box is
\* fully revealed
FullyRevealedEnding ==
    /\ state = "ending"
    /\ ending_index < Len(ending_slides)
    /\ ~EndingSlideNow.accept_123
    /\ ending_phase = "holding"
    /\ ending_text_index < Len(EndingScriptNow)
    /\ ending_char_index >= EndingScriptNow[ending_text_index + 1]

\* RIGHT on a fully revealed box of the opening: the next box with nothing
\* revealed, or fade_out on the last box
ContinueOpening ==
    FullyRevealedOpening =>
        HandleKeyDown(Self, "RIGHT")
            = IF opening_text_index + 1 < Len(OpeningScriptNow)
              THEN [Self EXCEPT !.opening_text_index = opening_text_index + 1,
                                !.opening_char_index = 0,
                                !.opening_typing_accumulator = 0]
              ELSE [Self EXCEPT !.opening_phase = "fade_out",
                                !.opening_timer = 0]

\* RIGHT on a fully revealed box of an ending slide that is not exit-flagged,
\* or not on its last box
ContinueEnding ==
    (/\ FullyRevealedEnding
     /\ \/ ~EndingSlideNow.exit_prompt
        \/ ending_text_index + 1 < Len(EndingScriptNow)) =>
        HandleKeyDown(Self, "RIGHT")
            = IF ending_text_index + 1 < Len(EndingScriptNow)
              THEN [Self EXCEPT !.ending_text_index = ending_text_index + 1,
                                !.ending_char_index = 0,
                                !.ending_typing_accumulator = 0]
              ELSE [Self EXCEPT !.ending_phase = "fade_out",
                                !.ending_timer = 0]

\* the ending holds the exit-flagged slide on its last box, fully revealed
LastBoxOfExitSlide ==
    /\ FullyRevealedEnding
    /\ EndingSlideNow.exit_prompt
    /\ ending_text_index + 1 = Len(EndingScriptNow)

\* C29 as stated: RIGHT on a fully revealed box moves to the next box with
\* the revealed count and the accumulator at zero when boxes remain; on the
\* last box it starts fade_out, except on the exit-flagged slide of the
\* ending, where it ends the run.
C29_ContinueEndsRunOnExitSlide ==
    /\ ContinueOpening
    /\ ContinueEnding
    /\ LastBoxOfExitSlide =>
          HandleKeyDown(Self, "RIGHT") = [Self EXCEPT !.running = FALSE]

\* C29 amended: the same, except that on the last box of the exit-flagged
\* slide RIGHT moves the box index past the script (the exit prompt is shown)
\* and the run goes on; a further key or click ends it.
C29_ContinueShowsExitPrompt ==
    /\ ContinueOpening
    /\ ContinueEnding
    /\ LastBoxOfExitSlide =>
          LET after == HandleKeyDown(Self, "RIGHT")
          IN  /\ after = [Self EXCEPT
                            !.ending_text_index = Len(EndingScriptNow)]
              /\ \A key \in AllKeys \ {"ESCAPE"} :
                    ~HandleKeyDown(after, key).running

\* the last box of the exit-flagged slide is typed to its end and RIGHT keeps
\* the run going
C29_Witness ==
    /\ LastBoxOfExitSlide
    /\ running
    /\ HandleKeyDown(Self, "RIGHT").running
    /\ HandleKeyDown(Self, "RIGHT").ending_phase = "holding"
    /\ HandleKeyDown(Self, "RIGHT").ending_text_index = Len(EndingScriptNow)

\* ---- C30 ----
\* an update step that finds the timer of the opening at the duration or over
OpeningTimeUp(duration) ==
    \E dt \in DialogueDts : Tick(dt) /\ opening_timer + dt >= duration

EndingTimeUp(duration) ==
    \E dt \in DialogueDts : Tick(dt) /\ ending_timer + dt >= duration

\* a press of 1, 2 or 3 on the accusation slide
ChoicePress ==
    /\ state = "ending"
    /\ ending_index < Len(ending_slides)
    /\ EndingSlideNow.accept_123
    /\ \E key \in {"1", "2", "3"} : KeyDown(key)

\* the phases of an opening slide: fade_in for 1.2 s, holding until RIGHT,
\* fade_out for 0.9 s, then the next slide
OpeningPhases ==
    (state = "opening" /\ state' = "opening") =>
        /\ (opening_phase = "fade_in" /\ opening_phase' # "fade_in")
              => /\ opening_phase' = "holding"
                 /\ OpeningTimeUp(OPENING_FADE_IN_DURATION)
        /\ (opening_phase = "holding" /\ opening_phase' # "holding")
              => /\ opening_phase' = "fade_out"
                 /\ KeyDown("RIGHT")
        /\ (opening_phase = "fade_out" /\ opening_phase' # "fade_out")
              => /\ opening_phase' = "fade_in"
                 /\ opening_slide_index' = opening_slide_index + 1
        /\ opening_slide_index' # opening_slide_index
              => /\ opening_phase = "fade_out"
                 /\ OpeningTimeUp(OPENING_FADE_OUT_DURATION)

\* the last slide of the opening leaves for the menu at the end of its
\* fade_out; Escape leaves the opening at any time
OpeningEnd ==
    (state = "opening" /\ state' # "opening") =>
        \/ /\ opening_phase = "fade_out"
           /\ opening_slide_index + 1 = NUM_OPENING_IMAGES
           /\ OpeningTimeUp(OPENING_FADE_OUT_DURATION)
        \/ KeyDown("ESCAPE")

\* the phases of an ending slide; the accusation slide excepted if excepted
\* is TRUE
EndingPhases(excepted) ==
    (state = "ending" /\ state' = "ending" /\ ~(excepted /\ ChoicePress)) =>
        /\ (ending_phase = "fade_in" /\ ending_phase' # "fade_in")
              => /\ ending_phase' = "holding"
                 /\ EndingTimeUp(ENDING_FADE_IN)
        /\ (ending_phase = "holding" /\ ending_phase' # "holding")
              => /\ ending_phase' = "fade_out"
                 /\ KeyDown("RIGHT")
        /\ (ending_phase = "fade_out" /\ ending_phase' # "fade_out")
              => /\ ending_phase' = "fade_in"
                 /\ ending_index' = ending_index + 1
        /\ ending_index' # ending_index
              => /\ ending_phase = "fade_out"
                 /\ EndingTimeUp(ENDING_FADE_OUT)

\* a choice key leaves the accusation slide at once, in any phase, for the
\* fade_in of the next slide
ChoiceJump ==
    (ChoicePress /\ ~exited) =>
        /\ ending_index' = ending_index + 1
        /\ ending_phase' = "fade_in"
        /\ ending_timer' = 0

\* no key and no click changes the slide index; the choice keys on the
\* accusation slide excepted if excepted is TRUE
InputKeepsSlide(excepted) ==
    /\ \A key \in AllKeys :
          LET after == HandleKeyDown(Self, key)
          IN  /\ state = "opening"
                    => after.opening_slide_index = opening_slide_index
              /\ (/\ state = "ending"
                  /\ ~(/\ excepted
                       /\ ending_index < Len(ending_slides)
                       /\ EndingSlideNow.accept_123
                       /\ key \in {"1", "2", "3"}))
                    => after.ending_index = ending_index
    /\ \A click \in ClickTargets(Self, AllClocks, 0..2) :
          LET after == HandleMouseDown(Self, click)
          IN  /\ state = "opening"
                    => after.opening_slide_index = opening_slide_index
              /\ state = "ending" => after.ending_index = ending_index

\* C30 as stated: every opening and ending slide passes through fade_in,
\* holding and fade_out in that order before the slide index advances;
\* fade_in ends only after 1.2 s, fade_out only after 0.9 s, holding is left
\* only by a continue press, and no input moves to the next slide from
\* fade_in or from holding without a fade_out.
C30_PhasesInOrder ==
    /\ []InputKeepsSlide(FALSE)
    /\ [][OpeningPhases /\ OpeningEnd /\ EndingPhases(FALSE)]_vars

\* C30 amended: the same for every slide but the accusation slide, which a
\* choice key leaves at once from any of its phases, without a fade_out, for
\* the fade_in of the next slide.
C30_PhasesInOrderButAccusation ==
    /\ []InputKeepsSlide(TRUE)
    /\ [][OpeningPhases /\ OpeningEnd /\ EndingPhases(TRUE) /\ ChoiceJump]_vars

\* the slide after the one the choice led to begins its fade_in: the slide
\* before it went through its three phases
C30_Witness ==
    /\ state = "ending"
    /\ ending_player_choice # 0
    /\ ending_index = 5
    /\ ending_phase = "fade_in"
    /\ ending_timer = 0

\* ---- C31 ----
\* no key, click or update step changes the culprit or the scenes
HandlersKeepCast ==
    /\ \A key \in AllKeys :
          /\ HandleKeyDown(Self, key).culprit = culprit
          /\ HandleKeyDown(Self, key).scenes = scenes
    /\ \A click \in ClickTargets(Self, AllClocks, 0..2) :
          /\ HandleMouseDown(Self, click).culprit = culprit
          /\ HandleMouseDown(Self, click).scenes = scenes
    /\ \A dt \in TickDts :
          /\ Update(Self, dt).culprit = culprit
          /\ Update(Self, dt).scenes = scenes

\* C31: the culprit chosen at start-up and the artifacts built from it (the
\* identity, suspect and points of each of the 18 slots) are left unchanged by
\* every input event and every update step of the run.
C31_CastIsFixed ==
    /\ [](HandlersKeepCast /\ scenes = BuildScenes(culprit, {}))
    /\ [][culprit' = culprit /\ scenes' = scenes]_vars

\* the ending is reached with three captures, one of them of an artifact, and
\* the 18 slots are as built
C31_Witness ==
    /\ state = "ending"
    /\ Len(snapshots) = 3
    /\ \E k \in 1..3 : snapshots[k].trigger_artifact_filename # None
    /\ scenes = BuildScenes(culprit, {})
    /\ \A i \in AllClocks : Len(scenes[i].artifacts) = 3

\* ---- C32 ----
\* the game object in menu with the countdown expired
ExpiredMenu == [Self EXCEPT !.state = "menu", !.global_time = 0]

\* C32: a click in menu on neither a clock nor the Accuse button, a click in
\* scene on no artifact and a click inside the popup box on no button change
\* nothing; a clock click enters the scene of that clock while the countdown
\* is above zero, and does nothing with the countdown at zero.
C32_MissedClicks ==
    /\ state = "menu"
          => /\ HandleMouseDown(Self, <<"nothing", 0>>) = Self
             /\ \A i \in AllClocks :
                   HandleMouseDown(Self, <<"clock", i>>)
                       = IF global_time > 0
                         THEN [Self EXCEPT !.state = "scene",
                                           !.current_scene_index = i]
                         ELSE Self
    /\ state = "scene" => HandleMouseDown(Self, <<"nothing", 0>>) = Self
    /\ state = "artifact_popup"
          => HandleMouseDown(Self, <<"inside", 0>>) = Self
    /\ \A i \in AllClocks :
          HandleMouseDown(ExpiredMenu, <<"clock", i>>) = ExpiredMenu

\* the popup is open with one capture in the ledger, time has passed, and a
\* click inside the box on no button changes nothing
C32_Witness ==
    /\ state = "artifact_popup"
    /\ Len(snapshots) = 1
    /\ global_time < GLOBAL_TIME_LIMIT
    /\ HandleMouseDown(Self, <<"inside", 0>>).state = "artifact_popup"
    /\ HandleMouseDown(Self, <<"inside", 0>>).snapshots = snapshots

\* ---- C33 ----
CountdownInRange == global_time >= 0 /\ global_time <= GLOBAL_TIME_LIMIT

\* no key, click or update step changes the countdown in opening or ending
CountdownFrozen ==
    state \in {"opening", "ending"} =>
        /\ \A key \in AllKeys :
              HandleKeyDown(Self, key).global_time = global_time
        /\ \A click \in ClickTargets(Self, AllClocks, 0..2) :
              HandleMouseDown(Self, click).global_time = global_time
        /\ \A dt \in TickDts \cup DialogueDts :
              Update(Self, dt).global_time = global_time

\* C33: the countdown always lies in [0, 120] and never increases, and every
\* update step and every input leaves it unchanged while the state is opening
\* or ending.
C33_CountdownBounds ==
    /\ [](CountdownInRange /\ CountdownFrozen)
    /\ [][global_time' <= global_time]_vars

\* an ending entered by the Accuse button with 70 seconds left, two update
\* steps later
C33_Witness ==
    /\ state = "ending"
    /\ global_time = 70000
    /\ ending_phase = "holding"

\* ---- C34 ----
\* C34: the game is never in scene or artifact_popup while the ledger holds 3
\* snapshots: after the third capture the run goes snapshot_effect, menu,
\* ending, and no input handled between the end of the snapshot effect and the
\* next update step re-enters a scene first.
C34_NoSceneAtCap ==
    state \in {"scene", "artifact_popup"} => Len(snapshots) < MAX_SNAPSHOTS

\* ---- C35 ----
\* C35: whenever the state is menu, snapshot_effect or ending the ominous loop
\* is not playing: it is stopped whichever way the scene is left.
C35_LoopStoppedOutsideScene ==
    state \in {"menu", "snapshot_effect", "ending"}
        => (~ominous_playing /\ ominous_channels = 0)

\* ---- C36 ----
\* C36: under continuing update steps of positive length and with no quit
\* request, once the run has left the opening the state ending is eventually
\* reached, whatever the player does.
C36_EndingReached == (state # "opening") ~> (state = "ending")

\* ---- C37 ----
\* s is an initial part of t
StartsWith(t, s) == Len(s) <= Len(t) /\ SubSeq(t, 1, Len(s)) = s

\* g is in the ending and h keeps it there: same ledger, no new build of the
\* script, and the slides of g still in front
StaysInEnding(g, h) ==
    /\ h.state = "ending"
    /\ h.snapshots = g.snapshots
    /\ h.ending_builds = g.ending_builds
    /\ StartsWith(h.ending_slides, g.ending_slides)

EndingHandlersStay ==
    state = "ending" =>
        /\ \A key \in AllKeys : StaysInEnding(Self, HandleKeyDown(Self, key))
        /\ \A click \in AllClicks :
              StaysInEnding(Self, HandleMouseDown(Self, click))
        /\ \A dt \in TickDts \cup DialogueDts :
              StaysInEnding(Self, Update(Self, dt))

\* C37: the ending is absorbing and frozen: once the state is ending no input
\* and no tick changes it to another state, the ending script is never built
\* again from scratch (slides are only added at its end), and the ledger is
\* never changed again.
C37_EndingAbsorbing ==
    /\ [](EndingHandlersStay)
    /\ [][state = "ending" =>
            /\ state' = "ending"
            /\ snapshots' = snapshots
            /\ ending_builds' = ending_builds
            /\ StartsWith(ending_slides', ending_slides)]_vars

C37_Witness ==
    /\ state = "ending"
    /\ ending_player_choice # 0
    /\ ending_builds = 1
    /\ Len(snapshots) >= 1
    /\ Len(ending_slides) > Len(LossSlides(culprit))

\* ---- C38 ----
\* the slide under the cursor; read only where the cursor is in range
CurrentSlide == ending_slides[ending_index + 1]

\* C38: in state ending the slide index always points at an existing slide
\* (index < number of slides): the slide sequence never runs past its end. An
\* exit-flagged slide never enters fade_out, and the last slide fades out
\* only when it is the spell-cast slide, which appends the outcome.
C38_SlideIndexInRange ==
    state = "ending" =>
        /\ ending_index < Len(ending_slides)
        /\ CurrentSlide.exit_prompt => ending_phase # "fade_out"
        /\ (ending_index = Len(ending_slides) - 1 /\ ending_phase = "fade_out")
              => CurrentSlide.image = "mage_cooking.png"

C38_Witness ==
    /\ state = "ending"
    /\ ending_player_choice # 0
    /\ ending_index = Len(ending_slides) - 1
    /\ CurrentSlide.exit_prompt
    /\ ending_phase = "holding"
    /\ \E k \in 1..Len(ending_slides) :
          ending_slides[k].image = "mage_cooking.png"

\* ---- C39 ----
\* C39: whenever the countdown is zero the state is ending: menu, scene,
\* artifact_popup and snapshot_effect are never observed with an expired
\* countdown, so in menu a click on any clock enters its scene.
C39_ExpiredMeansEnding ==
    /\ global_time = 0 => state = "ending"
    /\ state = "menu" =>
          \A i \in AllClocks :
              HandleMouseDown(Self, <<"clock", i>>).state = "scene"

C39_Witness ==
    /\ global_time = 0
    /\ state = "ending"
    /\ ending_builds = 1
    /\ Len(snapshots) < MAX_SNAPSHOTS

\* ---- C40 ----
\* C40: the active scene selection is consistent with the state: in scene,
\* artifact_popup and snapshot_effect it names one of the 6 scenes; in
\* opening, menu and ending it is cleared (-1); and in artifact_popup the
\* popup's scene equals the active scene and the popup's artifact is one of
\* that scene's artifacts.
C40_SceneSelectionConsistent ==
    /\ state \in {"scene", "artifact_popup", "snapshot_effect"}
          => current_scene_index \in 0..5
    /\ state \in {"opening", "menu", "ending"} => current_scene_index = -1
    /\ state = "artifact_popup" =>
          /\ popup_scene_index = current_scene_index
          /\ \E k \in 1..Len(scenes[current_scene_index].artifacts) :
                scenes[current_scene_index].artifacts[k].spec_filename
                    = popup_artifact_filename

C40_Witness ==
    /\ state = "artifact_popup"
    /\ Len(snapshots) >= 1
    /\ current_scene_index \in 0..5
    /\ popup_scene_index = current_scene_index
    /\ popup_artifact_filename # ""

====
